---- MODULE Spec2Model ----
(***************************************************************************)
(* Compliance decision core of the remote-work portal: the blocked-country *)
(* table, the ordered rule set and ComplianceService.assess.               *)
(***************************************************************************)
EXTENDS Integers, Sequences, FiniteSets, TLC

(***************************************************************************)
(* Python values.  A field of the evaluation context can hold any Python   *)
(* value, so values carry their type; a required argument the caller left  *)
(* out is Missing.                                                         *)
(***************************************************************************)
PyNone == [t |-> "NoneType"]
Missing == [t |-> "missing"]
PyBool(b) == [t |-> "bool", b |-> b]
PyInt(i) == [t |-> "int", i |-> i]
PyStr(s) == [t |-> "str", s |-> s]
PyList(l) == [t |-> "list", l |-> l]

\* bool(v): Python truthiness.
Truthy(v) ==
    CASE v.t = "bool" -> v.b
      [] v.t = "int" -> v.i # 0
      [] v.t = "str" -> v.s # ""
      [] v.t = "list" -> v.l # <<>>
      [] OTHER -> FALSE

\* str(int) for the integers of the model.
IntStr(i) == IF i < 0 THEN "-" \o ToString(-i) ELSE ToString(i)

\* f"{v}": how an f-string renders a value.
Fmt(v) ==
    CASE v.t = "bool" -> IF v.b THEN "True" ELSE "False"
      [] v.t = "int" -> IntStr(v.i)
      [] v.t = "str" -> v.s
      [] OTHER -> "None"

(***************************************************************************)
(* str.lower, str.upper, str.strip on ASCII text.                          *)
(***************************************************************************)
UpperLetters == "ABCDEFGHIJKLMNOPQRSTUVWXYZ"
LowerLetters == "abcdefghijklmnopqrstuvwxyz"
Whitespace == {" ", "\t", "\n", "\r"}

\* Python's mapping of each upper-case letter to its lower-case letter.
ToLower ==
    [ch \in {SubSeq(UpperLetters, i, i) : i \in 1..26} |->
        LET i == CHOOSE i \in 1..26 : SubSeq(UpperLetters, i, i) = ch
        IN  SubSeq(LowerLetters, i, i)]
ToUpper ==
    [ch \in {SubSeq(LowerLetters, i, i) : i \in 1..26} |->
        LET i == CHOOSE i \in 1..26 : SubSeq(LowerLetters, i, i) = ch
        IN  SubSeq(UpperLetters, i, i)]

RECURSIVE MapStr(_, _)
MapStr(s, table) ==
    IF s = "" THEN ""
    ELSE (IF Head(s) \in DOMAIN table THEN table[Head(s)] ELSE Head(s))
         \o MapStr(Tail(s), table)

lower(s) == MapStr(s, ToLower)
upper(s) == MapStr(s, ToUpper)

RECURSIVE lstrip(_)
lstrip(s) ==
    IF s # "" /\ Head(s) \in Whitespace THEN lstrip(Tail(s)) ELSE s

RECURSIVE rstrip(_)
rstrip(s) ==
    IF s # "" /\ SubSeq(s, Len(s), Len(s)) \in Whitespace
    THEN rstrip(SubSeq(s, 1, Len(s) - 1))
    ELSE s

strip(s) == rstrip(lstrip(s))

(***************************************************************************)
(* blocked_countries.py: the table of blocked countries.                   *)
(***************************************************************************)
BlockedCountry(name, code, reason, region) ==
    [name |-> name, code |-> code, reason |-> reason, region |-> region]

SANCTIONED_COUNTRIES ==
    << BlockedCountry("Afghanistan", "AF", "sanctions", "Asia Pacific"),
       BlockedCountry("North Korea", "KP", "sanctions", "Asia Pacific"),
       BlockedCountry("Iran", "IR", "sanctions", "Asia Pacific"),
       BlockedCountry("Iraq", "IQ", "sanctions", "Asia Pacific"),
       BlockedCountry("Myanmar", "MM", "sanctions", "Asia Pacific"),
       BlockedCountry("Bosnia and Herzegovina", "BA", "sanctions", "Europe"),
       BlockedCountry("Russia", "RU", "sanctions", "Europe"),
       BlockedCountry("Turkey", "TR", "sanctions", "Europe"),
       BlockedCountry("Ukraine", "UA", "sanctions", "Europe"),
       BlockedCountry("Central African Republic", "CF", "sanctions", "IMEA"),
       BlockedCountry("Congo (DRC)", "CD", "sanctions", "IMEA"),
       BlockedCountry("Guinea", "GN", "sanctions", "IMEA"),
       BlockedCountry("Libya", "LY", "sanctions", "IMEA"),
       BlockedCountry("Somalia", "SO", "sanctions", "IMEA"),
       BlockedCountry("South Sudan", "SS", "sanctions", "IMEA"),
       BlockedCountry("Sudan", "SD", "sanctions", "IMEA"),
       BlockedCountry("Syria", "SY", "sanctions", "IMEA"),
       BlockedCountry("Yemen", "YE", "sanctions", "IMEA"),
       BlockedCountry("Zimbabwe", "ZW", "sanctions", "IMEA"),
       BlockedCountry("Haiti", "HT", "sanctions", "North America"),
       BlockedCountry("Nicaragua", "NI", "sanctions", "North America"),
       BlockedCountry("Venezuela", "VE", "sanctions", "Latin America") >>

NO_ENTITY_COUNTRIES ==
    << BlockedCountry("Brunei", "BN", "no_entity", "Asia Pacific"),
       BlockedCountry("Bhutan", "BT", "no_entity", "Asia Pacific"),
       BlockedCountry("Fiji", "FJ", "no_entity", "Asia Pacific"),
       BlockedCountry("Kiribati", "KI", "no_entity", "Asia Pacific"),
       BlockedCountry("Laos", "LA", "no_entity", "Asia Pacific"),
       BlockedCountry("Maldives", "MV", "no_entity", "Asia Pacific"),
       BlockedCountry("Marshall Islands", "MH", "no_entity", "Asia Pacific"),
       BlockedCountry("Micronesia", "FM", "no_entity", "Asia Pacific"),
       BlockedCountry("Mongolia", "MN", "no_entity", "Asia Pacific"),
       BlockedCountry("Nauru", "NR", "no_entity", "Asia Pacific"),
       BlockedCountry("Nepal", "NP", "no_entity", "Asia Pacific"),
       BlockedCountry("Palau", "PW", "no_entity", "Asia Pacific"),
       BlockedCountry("Papua New Guinea", "PG", "no_entity", "Asia Pacific"),
       BlockedCountry("Samoa", "WS", "no_entity", "Asia Pacific"),
       BlockedCountry("Solomon Islands", "SB", "no_entity", "Asia Pacific"),
       BlockedCountry("Timor-Leste", "TL", "no_entity", "Asia Pacific"),
       BlockedCountry("Tonga", "TO", "no_entity", "Asia Pacific"),
       BlockedCountry("Turkmenistan", "TM", "no_entity", "Asia Pacific"),
       BlockedCountry("Tuvalu", "TV", "no_entity", "Asia Pacific"),
       BlockedCountry("Uzbekistan", "UZ", "no_entity", "Asia Pacific"),
       BlockedCountry("Vanuatu", "VU", "no_entity", "Asia Pacific"),
       BlockedCountry("Albania", "AL", "no_entity", "Europe"),
       BlockedCountry("Andorra", "AD", "no_entity", "Europe"),
       BlockedCountry("Armenia", "AM", "no_entity", "Europe"),
       BlockedCountry("Azerbaijan", "AZ", "no_entity", "Europe"),
       BlockedCountry("Cyprus", "CY", "no_entity", "Europe"),
       BlockedCountry("Iceland", "IS", "no_entity", "Europe"),
       BlockedCountry("Liechtenstein", "LI", "no_entity", "Europe"),
       BlockedCountry("Luxembourg", "LU", "no_entity", "Europe"),
       BlockedCountry("Malta", "MT", "no_entity", "Europe"),
       BlockedCountry("Monaco", "MC", "no_entity", "Europe"),
       BlockedCountry("Montenegro", "ME", "no_entity", "Europe"),
       BlockedCountry("North Macedonia", "MK", "no_entity", "Europe"),
       BlockedCountry("Moldova", "MD", "no_entity", "Europe"),
       BlockedCountry("San Marino", "SM", "no_entity", "Europe"),
       BlockedCountry("Burundi", "BI", "no_entity", "IMEA"),
       BlockedCountry("Chad", "TD", "no_entity", "IMEA"),
       BlockedCountry("Comoros", "KM", "no_entity", "IMEA"),
       BlockedCountry("Equatorial Guinea", "GQ", "no_entity", "IMEA"),
       BlockedCountry("Eritrea", "ER", "no_entity", "IMEA"),
       BlockedCountry("Guinea-Bissau", "GW", "no_entity", "IMEA"),
       BlockedCountry("Kazakhstan", "KZ", "no_entity", "IMEA"),
       BlockedCountry("Kyrgyzstan", "KG", "no_entity", "IMEA"),
       BlockedCountry("Sao Tome and Principe", "ST", "no_entity", "IMEA"),
       BlockedCountry("Seychelles", "SC", "no_entity", "IMEA"),
       BlockedCountry("Tajikistan", "TJ", "no_entity", "IMEA"),
       BlockedCountry("Antigua and Barbuda", "AG", "no_entity", "North America"),
       BlockedCountry("Bahamas", "BS", "no_entity", "North America"),
       BlockedCountry("Barbados", "BB", "no_entity", "North America"),
       BlockedCountry("Cuba", "CU", "no_entity", "North America"),
       BlockedCountry("Dominica", "DM", "no_entity", "North America"),
       BlockedCountry("Grenada", "GD", "no_entity", "North America"),
       BlockedCountry("Jamaica", "JM", "no_entity", "North America"),
       BlockedCountry("Saint Kitts and Nevis", "KN", "no_entity", "North America"),
       BlockedCountry("Saint Lucia", "LC", "no_entity", "North America"),
       BlockedCountry("Saint Vincent and the Grenadines", "VC", "no_entity", "North America"),
       BlockedCountry("Belize", "BZ", "no_entity", "Latin America"),
       BlockedCountry("Guyana", "GY", "no_entity", "Latin America"),
       BlockedCountry("Suriname", "SR", "no_entity", "Latin America") >>

ALL_BLOCKED_COUNTRIES == SANCTIONED_COUNTRIES \o NO_ENTITY_COUNTRIES

Elems(seq) == {seq[i] : i \in DOMAIN seq}

SANCTIONED_COUNTRY_CODES == {c.code : c \in Elems(SANCTIONED_COUNTRIES)}
SANCTIONED_COUNTRY_NAMES == {lower(c.name) : c \in Elems(SANCTIONED_COUNTRIES)}
NO_ENTITY_COUNTRY_CODES == {c.code : c \in Elems(NO_ENTITY_COUNTRIES)}
NO_ENTITY_COUNTRY_NAMES == {lower(c.name) : c \in Elems(NO_ENTITY_COUNTRIES)}
ALL_BLOCKED_COUNTRY_CODES == SANCTIONED_COUNTRY_CODES \cup NO_ENTITY_COUNTRY_CODES
ALL_BLOCKED_COUNTRY_NAMES == SANCTIONED_COUNTRY_NAMES \cup NO_ENTITY_COUNTRY_NAMES

\* The functions below take a Python str (the text itself).

\* A lookup that knows the names and not the codes.
is_country_blocked_NamesOnly(country) ==
    strip(lower(country)) \in ALL_BLOCKED_COUNTRY_NAMES

is_country_blocked(country) ==
    LET country_lower == strip(lower(country))
        country_upper == strip(upper(country))
    IN  \/ country_lower \in ALL_BLOCKED_COUNTRY_NAMES
        \/ country_upper \in ALL_BLOCKED_COUNTRY_CODES

get_block_reason(country) ==
    LET country_lower == strip(lower(country))
        country_upper == strip(upper(country))
    IN  IF \/ country_lower \in SANCTIONED_COUNTRY_NAMES
           \/ country_upper \in SANCTIONED_COUNTRY_CODES
        THEN PyStr("sanctions")
        ELSE IF \/ country_lower \in NO_ENTITY_COUNTRY_NAMES
                \/ country_upper \in NO_ENTITY_COUNTRY_CODES
        THEN PyStr("no_entity")
        ELSE PyNone

\* blocked.name.lower() of each entry of the combined list.
LoweredNames ==
    [i \in DOMAIN ALL_BLOCKED_COUNTRIES |-> lower(ALL_BLOCKED_COUNTRIES[i].name)]

\* The loop of get_blocked_country_info: the first entry of the combined list,
\* in list order, whose lower-cased name or whose code matches; None if none.
FirstMatch(country_lower, country_upper) ==
    LET hits == {i \in DOMAIN ALL_BLOCKED_COUNTRIES :
                    \/ LoweredNames[i] = country_lower
                    \/ ALL_BLOCKED_COUNTRIES[i].code = country_upper}
    IN  IF hits = {} THEN PyNone
        ELSE ALL_BLOCKED_COUNTRIES[CHOOSE i \in hits : \A j \in hits : i <= j]

\* A lookup that compares the code as typed.
get_blocked_country_info_CodeAsTyped(country) ==
    FirstMatch(strip(lower(country)), strip(country))

get_blocked_country_info(country) ==
    FirstMatch(strip(lower(country)), strip(upper(country)))

\* The message for a table entry (or None for None).
MessageFor(info) ==
    IF info = PyNone THEN PyNone
    ELSE IF info.reason = "sanctions"
    THEN PyStr("SIRW to " \o info.name \o " is not permitted. This country is currently subject "
               \o "to UN/EU sanctions, and remote work from this location would expose both "
               \o "Maersk and the employee to significant legal and compliance risks.")
    ELSE PyStr("SIRW to " \o info.name \o " is not permitted. Maersk does not have a legal entity "
               \o "in this country, which means we cannot ensure compliance with local tax, "
               \o "immigration, and employment regulations.")

get_block_message(country) == MessageFor(get_blocked_country_info(country))

(***************************************************************************)
(* settings.REMOTE_WORK_SETTINGS (config/settings/base.py).                *)
(***************************************************************************)
DEFAULT_DAYS_ALLOWED == 20
MAX_SINGLE_TRIP_DAYS == 20
MAX_CONSECUTIVE_DAYS == 14

(***************************************************************************)
(* rules.py: the rule classes.  evaluate either returns a ComplianceRule   *)
(* or raises; what it raises on is Python's own behaviour on the value it  *)
(* is handed (None.lower(), "ten" <= 20, iterating an int).                *)
(***************************************************************************)
ComplianceRule(name, passed, reason, severity) ==
    [name |-> name, passed |-> passed, reason |-> reason, severity |-> severity]

Returned(v) == [raised |-> FALSE, value |-> v]
Raised(e) == [raised |-> TRUE, error |-> e]

\* str(e) of the AttributeError of v.lower() for a v that is no str.
NoLowerError(v) == "'" \o v.t \o "' object has no attribute 'lower'"
\* str(e) of the TypeError of v <= <int> for a v that is no number.
NoCompareError(v) ==
    "'<=' not supported between instances of '" \o v.t \o "' and 'int'"
\* str(e) of the TypeError of iterating a v that is no iterable.
NotIterableError(v) == "'" \o v.t \o "' object is not iterable"

\* Whether v <= n is defined (int and bool compare with an int), and its value.
IsNumber(v) == v.t \in {"int", "bool"}
NumberOf(v) == IF v.t = "bool" THEN (IF v.b THEN 1 ELSE 0) ELSE v.i

BlockedCountryRule == [cls |-> "BlockedCountryRule", name |-> "Blocked Country Check", severity |-> "block"]
\* Right to Work registered with severity warn.
RightToWorkRule_Warn == [cls |-> "RightToWorkRule", name |-> "Right to Work", severity |-> "warn"]
RightToWorkRule == [cls |-> "RightToWorkRule", name |-> "Right to Work", severity |-> "block"]
DurationRule ==
    [cls |-> "DurationRule", name |-> "Duration Limit", severity |-> "block",
     max_days |-> MAX_SINGLE_TRIP_DAYS]
SameCountryRule == [cls |-> "SameCountryRule", name |-> "Same Country Check", severity |-> "info"]
\* Consecutive Days Limit reading the single-trip maximum.
ConsecutiveDaysRule_SingleTripMax ==
    [cls |-> "ConsecutiveDaysRule", name |-> "Consecutive Days Limit", severity |-> "block",
     max_consecutive_days |-> MAX_SINGLE_TRIP_DAYS]
ConsecutiveDaysRule ==
    [cls |-> "ConsecutiveDaysRule", name |-> "Consecutive Days Limit", severity |-> "block",
     max_consecutive_days |-> MAX_CONSECUTIVE_DAYS]
IneligibleRoleRule == [cls |-> "IneligibleRoleRule", name |-> "Role Eligibility Check", severity |-> "block"]

BlockedCountryRule_evaluate(self, kw) ==
    LET destination_country == kw.destination_country IN
    IF destination_country.t # "str" THEN Raised(NoLowerError(destination_country))
    ELSE IF ~is_country_blocked(destination_country.s)
    THEN Returned(ComplianceRule(self.name, TRUE,
            destination_country.s \o " is an eligible destination for SIRW.", "info"))
    ELSE LET block_message == get_block_message(destination_country.s) IN
         Returned(ComplianceRule(self.name, FALSE,
            (IF Truthy(block_message) THEN block_message.s
             ELSE "SIRW to this country is not permitted") \o " (Policy Appendix A).",
            self.severity))

\* Right to Work giving its passing verdict the rule's own severity.
RightToWorkRule_evaluate_OwnSeverity(self, kw) ==
    IF Truthy(kw.has_right_to_work)
    THEN Returned(ComplianceRule(self.name, TRUE,
            "Employee has right to work in " \o Fmt(kw.destination_country) \o ".",
            self.severity))
    ELSE Returned(ComplianceRule(self.name, FALSE,
            "Employee does not have right to work in " \o Fmt(kw.destination_country) \o ". "
            \o "Remote work cannot be approved without valid work authorisation (Policy Section 4.1.3).",
            self.severity))

RightToWorkRule_evaluate(self, kw) ==
    IF Truthy(kw.has_right_to_work)
    THEN Returned(ComplianceRule(self.name, TRUE,
            "Employee has right to work in " \o Fmt(kw.destination_country) \o ".", "info"))
    ELSE Returned(ComplianceRule(self.name, FALSE,
            "Employee does not have right to work in " \o Fmt(kw.destination_country) \o ". "
            \o "Remote work cannot be approved without valid work authorisation (Policy Section 4.1.3).",
            self.severity))

\* Duration Limit failing from the maximum on.
DurationRule_evaluate_FromTheMaximum(self, kw) ==
    LET duration_days == kw.duration_days IN
    IF ~IsNumber(duration_days) THEN Raised(NoCompareError(duration_days))
    ELSE IF NumberOf(duration_days) < self.max_days
    THEN Returned(ComplianceRule(self.name, TRUE,
            "Duration of " \o Fmt(duration_days) \o " days is within the "
            \o IntStr(self.max_days) \o "-day limit.", "info"))
    ELSE Returned(ComplianceRule(self.name, FALSE,
            "Duration of " \o Fmt(duration_days) \o " days exceeds the maximum allowed "
            \o IntStr(self.max_days) \o " days for short-term remote work. "
            \o "Please shorten your request or apply for a permanent transfer (Policy Section 4.1.2).",
            self.severity))

DurationRule_evaluate(self, kw) ==
    LET duration_days == kw.duration_days IN
    IF ~IsNumber(duration_days) THEN Raised(NoCompareError(duration_days))
    ELSE IF NumberOf(duration_days) <= self.max_days
    THEN Returned(ComplianceRule(self.name, TRUE,
            "Duration of " \o Fmt(duration_days) \o " days is within the "
            \o IntStr(self.max_days) \o "-day limit.", "info"))
    ELSE Returned(ComplianceRule(self.name, FALSE,
            "Duration of " \o Fmt(duration_days) \o " days exceeds the maximum allowed "
            \o IntStr(self.max_days) \o " days for short-term remote work. "
            \o "Please shorten your request or apply for a permanent transfer (Policy Section 4.1.2).",
            self.severity))

\* Same Country Check failing, with its own severity, at home.
SameCountryRule_evaluate_FailsAtHome(self, kw) ==
    LET home_country == kw.home_country
        destination_country == kw.destination_country
    IN
    IF home_country.t # "str" THEN Raised(NoLowerError(home_country))
    ELSE IF destination_country.t # "str" THEN Raised(NoLowerError(destination_country))
    ELSE IF lower(home_country.s) # lower(destination_country.s)
    THEN Returned(ComplianceRule(self.name, TRUE,
            "Cross-border remote work from " \o home_country.s \o " to "
            \o destination_country.s \o ".", "info"))
    ELSE Returned(ComplianceRule(self.name, FALSE,
            "Working from home country (" \o home_country.s \o "). "
            \o "This may not require cross-border compliance review.", self.severity))

SameCountryRule_evaluate(self, kw) ==
    LET home_country == kw.home_country
        destination_country == kw.destination_country
    IN
    IF home_country.t # "str" THEN Raised(NoLowerError(home_country))
    ELSE IF destination_country.t # "str" THEN Raised(NoLowerError(destination_country))
    ELSE IF lower(home_country.s) # lower(destination_country.s)
    THEN Returned(ComplianceRule(self.name, TRUE,
            "Cross-border remote work from " \o home_country.s \o " to "
            \o destination_country.s \o ".", "info"))
    ELSE Returned(ComplianceRule(self.name, TRUE,
            "Working from home country (" \o home_country.s \o "). "
            \o "This may not require cross-border compliance review.", "info"))

ConsecutiveDaysRule_evaluate(self, kw) ==
    LET duration_days == kw.duration_days IN
    IF ~IsNumber(duration_days) THEN Raised(NoCompareError(duration_days))
    ELSE IF NumberOf(duration_days) <= self.max_consecutive_days
    THEN Returned(ComplianceRule(self.name, TRUE,
            "Duration of " \o Fmt(duration_days) \o " days is within the "
            \o IntStr(self.max_consecutive_days) \o "-day consecutive limit.", "info"))
    ELSE Returned(ComplianceRule(self.name, FALSE,
            "Duration of " \o Fmt(duration_days) \o " consecutive days exceeds the maximum allowed "
            \o IntStr(self.max_consecutive_days) \o " consecutive workdays. The 20-day annual allowance "
            \o "cannot be taken as a single continuous block. Please shorten your request "
            \o "or split into multiple trips (Policy Section 4.1.2).",
            self.severity))

INELIGIBLE_CATEGORIES ==
    << "frontline_customer_facing", "onsite_required", "legal_restrictions",
       "commercial_sales", "procurement", "senior_executive" >>

\* category_messages.get(cat, cat)
category_messages(cat) ==
    CASE cat = "frontline_customer_facing" -> "frontline or customer-facing role"
      [] cat = "onsite_required" -> "role that must be performed on-site"
      [] cat = "legal_restrictions" -> "role with legal restrictions preventing remote work abroad"
      [] cat = "commercial_sales" -> "commercial/sales role with contract signing authority"
      [] cat = "procurement" -> "procurement role with contract signing authority"
      [] cat = "senior_executive" -> "senior executive leadership role"
      [] OTHER -> cat

\* sep.join(strs)
RECURSIVE Join(_, _)
Join(sep, strs) ==
    IF strs = <<>> THEN ""
    ELSE IF Len(strs) = 1 THEN strs[1]
    ELSE strs[1] \o sep \o Join(sep, Tail(strs))

\* [category_messages.get(cat, cat) for cat in cats if cat in INELIGIBLE_CATEGORIES]
RECURSIVE Flagged(_)
Flagged(cats) ==
    IF cats = <<>> THEN <<>>
    ELSE (IF Head(cats) \in Elems(INELIGIBLE_CATEGORIES)
          THEN <<category_messages(Head(cats))>> ELSE <<>>) \o Flagged(Tail(cats))

\* The rule with the legacy flag consulted only when no category is given.
IneligibleRoleRule_evaluate_LegacyFallback(self, kw) ==
    LET is_sales_role == kw.is_sales_role
        ineligible_role_categories == kw.ineligible_role_categories
        eligible == Returned(ComplianceRule(self.name, TRUE,
                        "Employee role is eligible for SIRW.", "info"))
    IN
    IF ~Truthy(ineligible_role_categories)
    THEN IF Truthy(is_sales_role)
         THEN Returned(ComplianceRule(self.name, FALSE,
                "Employee has contract signing authority which may create "
                \o "Permanent Establishment risk. Sales and commercial roles with "
                \o "contract signing authority are not eligible for SIRW (Policy Section 4.1.1).",
                self.severity))
         ELSE eligible
    ELSE IF ineligible_role_categories.t \in {"int", "bool"}
    THEN Raised(NotIterableError(ineligible_role_categories))
    ELSE LET flagged == IF ineligible_role_categories.t = "list"
                        THEN Flagged(ineligible_role_categories.l)
                        ELSE <<>>
         IN  IF flagged # <<>>
             THEN Returned(ComplianceRule(self.name, FALSE,
                    "Employee is in an ineligible role category: " \o Join(", ", flagged) \o ". "
                    \o "SIRW is not available for this role type (Policy Section 4.1.1).",
                    self.severity))
             ELSE eligible

IneligibleRoleRule_evaluate(self, kw) ==
    LET is_sales_role == kw.is_sales_role
        ineligible_role_categories == kw.ineligible_role_categories
        eligible == Returned(ComplianceRule(self.name, TRUE,
                        "Employee role is eligible for SIRW.", "info"))
    IN
    IF Truthy(is_sales_role)
    THEN Returned(ComplianceRule(self.name, FALSE,
            "Employee has contract signing authority which may create "
            \o "Permanent Establishment risk. Sales and commercial roles with "
            \o "contract signing authority are not eligible for SIRW (Policy Section 4.1.1).",
            self.severity))
    ELSE IF ~Truthy(ineligible_role_categories) THEN eligible
    ELSE IF ineligible_role_categories.t \in {"int", "bool"}
    THEN Raised(NotIterableError(ineligible_role_categories))
    ELSE LET flagged == IF ineligible_role_categories.t = "list"
                        THEN Flagged(ineligible_role_categories.l)
                        ELSE <<>>  \* a str iterates over its characters: none is a category
         IN  IF flagged # <<>>
             THEN Returned(ComplianceRule(self.name, FALSE,
                    "Employee is in an ineligible role category: " \o Join(", ", flagged) \o ". "
                    \o "SIRW is not available for this role type (Policy Section 4.1.1).",
                    self.severity))
             ELSE eligible

\* rule.evaluate(**evaluation_context): dispatch on the rule's class.
evaluate(rule, kw) ==
    CASE rule.cls = "BlockedCountryRule" -> BlockedCountryRule_evaluate(rule, kw)
      [] rule.cls = "RightToWorkRule" -> RightToWorkRule_evaluate(rule, kw)
      [] rule.cls = "IneligibleRoleRule" -> IneligibleRoleRule_evaluate(rule, kw)
      [] rule.cls = "DurationRule" -> DurationRule_evaluate(rule, kw)
      [] rule.cls = "ConsecutiveDaysRule" -> ConsecutiveDaysRule_evaluate(rule, kw)
      [] rule.cls = "SameCountryRule" -> SameCountryRule_evaluate(rule, kw)

\* Registered rules, in evaluation order.
COMPLIANCE_RULES ==
    << BlockedCountryRule, RightToWorkRule, IneligibleRoleRule,
       DurationRule, ConsecutiveDaysRule, SameCountryRule >>

(***************************************************************************)
(* datetime.date, as far as the portal uses it: a date is its proleptic     *)
(* Gregorian ordinal (date.toordinal), as in CPython's datetime.            *)
(***************************************************************************)
date(ordinal) == [t |-> "date", ord |-> ordinal]

is_leap(y) == y % 4 = 0 /\ (y % 100 # 0 \/ y % 400 = 0)

\* The number of days before January 1st of year y.
days_before_year(y) ==
    (y - 1) * 365 + ((y - 1) \div 4) - ((y - 1) \div 100) + ((y - 1) \div 400)

DaysInMonth(y) ==
    << 31, IF is_leap(y) THEN 29 ELSE 28, 31, 30, 31, 30, 31, 31, 30, 31, 30, 31 >>

RECURSIVE days_before_month(_, _)
days_before_month(y, m) ==
    IF m = 1 THEN 0 ELSE days_before_month(y, m - 1) + DaysInMonth(y)[m - 1]

\* date(y, m, d)
ymd(y, m, d) == date(days_before_year(y) + days_before_month(y, m) + d)

\* date.weekday(): Monday is 0, Sunday is 6.
weekday(d) == (d.ord + 6) % 7

\* d + timedelta(days=n)
plus_days(d, n) == date(d.ord + n)

\* d.year, for the years the model's dates lie in.
Years == 2023..2025
year_of(d) ==
    CHOOSE y \in Years : days_before_year(y) < d.ord /\ d.ord <= days_before_year(y + 1)

(***************************************************************************)
(* requests/models.py: calculate_workdays.                                 *)
(***************************************************************************)
\* `not start_date`: None is falsy, a date never is.
NoDate(d) == d = PyNone

\* The locals after `workdays = 0; current = start_date`.
WorkdaysLocals(start_date) == [current |-> start_date, workdays |-> 0]

\* `while current <= end_date`
WhileGuard(loc, end_date) == loc.current.ord <= end_date.ord

\* A loop body that takes Saturday for a workday.
WhileBody_SaturdayCounts(loc) ==
    [current |-> plus_days(loc.current, 1),
     workdays |-> IF weekday(loc.current) <= 5 THEN loc.workdays + 1 ELSE loc.workdays]

\* One pass of the loop body.
WhileBody(loc) ==
    [current |-> plus_days(loc.current, 1),
     workdays |-> IF weekday(loc.current) < 5 THEN loc.workdays + 1 ELSE loc.workdays]

RECURSIVE WhileLoop(_, _)
WhileLoop(loc, end_date) ==
    IF WhileGuard(loc, end_date) THEN WhileLoop(WhileBody(loc), end_date)
    ELSE loc.workdays

\* The whole function, for the code that calls it.
calculate_workdays(start_date, end_date) ==
    IF NoDate(start_date) \/ NoDate(end_date) THEN 0
    ELSE WhileLoop(WorkdaysLocals(start_date), end_date)

(***************************************************************************)
(* services.py: ComplianceService.  Each call slot p is one call of        *)
(* assess on its own ComplianceService instance, with its own locals.      *)
(***************************************************************************)
NumCalls == 2
Calls == 1..NumCalls

VARIABLES
    pc,                 \* where call p stands: "idle", "rules", "done", "raised"
    service,            \* self.rules of the instance call p runs on
    evaluation_context, \* the context dict of call p
    idx,                \* the position of `for rule in self.rules` in call p
    rule_results,       \* the local list rule_results of call p
    blocking_failures,  \* the local list blocking_failures of call p
    warnings,           \* the local list warnings of call p
    result,             \* what call p returned (a dict), or the error it raised
    lookup,             \* a caller of blocked_countries.py: the text it asks
                        \* about and what each function returned to it
    scan,               \* a call of calculate_workdays: its arguments, its
                        \* locals and what it returned
    current_year,       \* timezone.now().year
    days_allowed,       \* User.days_allowed of every user
    requests,           \* the rows of RemoteWorkRequest, in insertion order
    handler             \* the view each worker is running or ran last: its
                        \* request, its locals and its response

vars == << pc, service, evaluation_context, idx, rule_results,
           blocking_failures, warnings, result, lookup, scan,
           current_year, days_allowed, requests, handler >>

assessVars == << pc, service, evaluation_context, idx, rule_results,
                 blocking_failures, warnings, result >>

\* What a call of assess, a lookup, a call of calculate_workdays leave alone.
portalVars == << current_year, days_allowed, requests, handler >>
outsideAssess == << lookup, scan, portalVars >>
outsideLookup == << assessVars, scan, portalVars >>
outsideWorkdays == << assessVars, lookup, portalVars >>
outsidePortal == << assessVars, lookup, scan >>

\* No call of calculate_workdays is under way.
NoScan == PyNone

\* The employees, and the workers that serve their HTTP requests.
Users == {"ana", "ben"}
NumWorkers == 2
Workers == 1..NumWorkers

\* User.days_allowed as the model creates it.
User_days_allowed_default == 20

\* A worker that has served nothing yet.
Idle == [view |-> "none", pc |-> "responded"]

\* The portal in 2024 with no request stored: ana with the default allowance,
\* ben with one an administrator has set.
PortalAtRest ==
    /\ current_year = 2024
    /\ days_allowed = [u \in Users |-> IF u = "ben" THEN 10
                                       ELSE User_days_allowed_default]
    /\ requests = << >>
    /\ handler = [w \in Workers |-> Idle]

\* Nobody is asking blocked_countries.py anything; a function not called yet.
NoLookup == PyNone
NotCalled == [t |-> "not called"]

\* ComplianceService.__init__: self.rules = rules or COMPLIANCE_RULES
ComplianceService_init(rules) ==
    IF rules # PyNone /\ rules # <<>> THEN rules ELSE COMPLIANCE_RULES

\* The names assess requires; a call that leaves one out raises TypeError
\* before the body runs.
RequiredArguments ==
    << "has_right_to_work", "is_sales_role", "duration_days",
       "home_country", "destination_country" >>

MissingArguments(c) ==
    SelectSeq(RequiredArguments, LAMBDA a : c[a] = Missing)

\* The try branch of the loop body, for the verdict the rule returned, on the
\* locals st = [idx, rule_results, blocking_failures, warnings].
RuleReturned_BreakOnBlock(rules, verdict, st) ==
    [idx |-> IF ~verdict.passed /\ verdict.severity = "block"
             THEN Len(rules) + 1 ELSE st.idx + 1,
     rule_results |-> Append(st.rule_results, verdict),
     blocking_failures |->
         IF ~verdict.passed /\ verdict.severity = "block"
         THEN Append(st.blocking_failures, verdict)
         ELSE st.blocking_failures,
     warnings |->
         IF verdict.passed \/ verdict.severity # "warn"
         THEN st.warnings
         ELSE Append(st.warnings, verdict)]

RuleReturned(rules, verdict, st) ==
    [idx |-> st.idx + 1,
     rule_results |-> Append(st.rule_results, verdict),
     blocking_failures |->
         IF ~verdict.passed /\ verdict.severity = "block"
         THEN Append(st.blocking_failures, verdict)
         ELSE st.blocking_failures,
     warnings |->
         IF ~(~verdict.passed /\ verdict.severity = "block")
            /\ ~verdict.passed /\ verdict.severity = "warn"
         THEN Append(st.warnings, verdict)
         ELSE st.warnings]

\* An except branch that logs the error and goes on to the next rule.
RuleRaised_LogOnly(rule, error, st) ==
    [idx |-> st.idx + 1,
     rule_results |-> st.rule_results,
     blocking_failures |-> st.blocking_failures,
     warnings |-> st.warnings]

\* The except branch of the loop body, for the error str(e) the rule raised.
RuleRaised(rule, error, st) ==
    [idx |-> st.idx + 1,
     rule_results |->
         Append(st.rule_results,
                ComplianceRule(rule.name, FALSE, "Error evaluating rule: " \o error, "warn")),
     blocking_failures |-> st.blocking_failures,
     warnings |->
         Append(st.warnings,
                ComplianceRule(rule.name, FALSE, "Error evaluating rule: " \o error, "warn"))]

\* What evaluate did, handed to the branch of the loop body it ends in.
Branch(rules, rule, r, st) ==
    IF r.raised THEN RuleRaised(rule, r.error, st)
    ELSE RuleReturned(rules, r.value, st)

\* One pass of the body of `for rule in self.rules`.
ForLoopStep(rules, kw, st) ==
    Branch(rules, rules[st.idx], evaluate(rules[st.idx], kw), st)

\* [f.reason for f in verdicts]
Reasons(verdicts) == [i \in DOMAIN verdicts |-> verdicts[i].reason]

\* The outcome with the two tests in the other order.
Outcome_WarningsFirst(blocking, warns) ==
    IF warns # <<>> THEN "escalated"
    ELSE IF blocking # <<>> THEN "rejected"
    ELSE "approved"

\* "Determine outcome": the outcome.
Outcome(blocking, warns) ==
    IF blocking # <<>> THEN "rejected"
    ELSE IF warns # <<>> THEN "escalated"
    ELSE "approved"

\* main_reason with the reasons joined by ", ".
MainReason_CommaJoined(blocking, warns, kw) ==
    IF blocking # <<>> THEN Join(", ", Reasons(blocking))
    ELSE IF warns # <<>>
    THEN "Manual review required. " \o Join(", ", Reasons(warns))
    ELSE "All compliance checks passed. Remote work in " \o Fmt(kw.destination_country)
         \o " for " \o Fmt(kw.duration_days) \o " days is approved."

\* "Determine outcome": main_reason.
MainReason(blocking, warns, kw) ==
    IF blocking # <<>> THEN Join(" | ", Reasons(blocking))
    ELSE IF warns # <<>>
    THEN "Manual review required. " \o Join(" | ", Reasons(warns))
    ELSE "All compliance checks passed. Remote work in " \o Fmt(kw.destination_country)
         \o " for " \o Fmt(kw.duration_days) \o " days is approved."

\* The note set whatever the outcome.
EscalationNote_Always(outcome, main_reason) == main_reason

\* "escalation_note": main_reason if outcome == "escalated" else ""
EscalationNote(outcome, main_reason) ==
    IF outcome = "escalated" THEN main_reason ELSE ""

\* The dict assess returns.
AssessmentResult(results, blocking, warns, kw) ==
    LET outcome == Outcome(blocking, warns)
        main_reason == MainReason(blocking, warns, kw)
    IN  [outcome |-> outcome,
         reason |-> main_reason,
         rules |-> [i \in DOMAIN results |->
                      [name |-> results[i].name, passed |-> results[i].passed,
                       reason |-> results[i].reason, severity |-> results[i].severity]],
         escalation_note |-> EscalationNote(outcome, main_reason)]

\* A list shared by the calls instead of a new one.
NewList_Shared == rule_results[1]

\* The three empty lists assess starts from.
NewList == <<>>

(***************************************************************************)
(* The contexts the calls are made with.                                   *)
(***************************************************************************)
MaxDuration == 21

RtwValues == {PyBool(TRUE), PyBool(FALSE)}
SalesValues == {PyBool(TRUE), PyBool(FALSE)}
\* Day counts around the two limits, some small ones, and values that are
\* no day count at all.
DurationValues ==
    {PyInt(d) : d \in {-1, 0, 10} \cup (MAX_CONSECUTIVE_DAYS..MaxDuration)}
    \cup {PyStr("ten"), PyNone, Missing}
HomeValues == {PyStr("Denmark"), PyNone}
DestinationValues ==
    {PyStr("France"), PyStr("denmark"), PyStr(" russia "), PyStr("mc"),
     PyStr(""), PyNone, Missing}
\* ineligible_role_categories, passed through **kwargs; None when left out.
CategoryValues ==
    {PyNone, PyList(<<"procurement">>),
     PyList(<<"senior_executive", "unknown_category", "frontline_customer_facing">>),
     PyList(<<"unknown_category">>), PyList(<<>>), PyInt(5)}

Context(rtw, sales, days, home, dest, cats) ==
    [has_right_to_work |-> rtw, is_sales_role |-> sales, duration_days |-> days,
     home_country |-> home, destination_country |-> dest,
     ineligible_role_categories |-> cats]

\* Every combination of the values above.
MixedContexts ==
    {Context(rtw, sales, days, home, dest, cats) :
        rtw \in RtwValues, sales \in SalesValues, days \in DurationValues,
        home \in HomeValues, dest \in DestinationValues, cats \in CategoryValues}

\* An otherwise ideal context for each sanctioned country, by name and by code.
SanctionedContexts ==
    {Context(PyBool(TRUE), PyBool(FALSE), PyInt(10), PyStr("Denmark"), PyStr(d), PyNone) :
        d \in {c.name : c \in Elems(SANCTIONED_COUNTRIES)}
              \cup {c.code : c \in Elems(SANCTIONED_COUNTRIES)}}

Contexts == MixedContexts \cup SanctionedContexts

\* The contexts of the two-call specification.
PairContexts ==
    {Context(PyBool(TRUE), PyBool(FALSE), PyInt(10), PyStr("Denmark"), PyStr("France"), PyNone),
     Context(PyBool(FALSE), PyBool(FALSE), PyInt(15), PyStr("Denmark"), PyStr("RU"), PyNone),
     Context(PyBool(TRUE), PyBool(FALSE), PyStr("ten"), PyStr("Denmark"), PyStr("France"), PyNone),
     Context(PyBool(TRUE), PyBool(TRUE), PyInt(21), PyNone, PyStr("Monaco"), PyNone)}

(***************************************************************************)
(* The actions.                                                            *)
(***************************************************************************)
\* No call of assess is under way.
NoAssess ==
    /\ pc = [p \in Calls |-> "idle"]
    /\ service = [p \in Calls |-> PyNone]
    /\ evaluation_context = [p \in Calls |-> PyNone]
    /\ idx = [p \in Calls |-> 0]
    /\ rule_results = [p \in Calls |-> <<>>]
    /\ blocking_failures = [p \in Calls |-> <<>>]
    /\ warnings = [p \in Calls |-> <<>>]
    /\ result = [p \in Calls |-> PyNone]

Init ==
    /\ NoAssess
    /\ lookup = NoLookup
    /\ scan = NoScan
    /\ PortalAtRest

\* ComplianceService().assess(**c): the call and the lines up to the loop.
StartAssess(p, c) ==
    /\ pc[p] = "idle"
    /\ service' = [service EXCEPT ![p] = ComplianceService_init(PyNone)]
    /\ IF MissingArguments(c) # <<>>
       THEN /\ pc' = [pc EXCEPT ![p] = "raised"]
            /\ result' = [result EXCEPT ![p] =
                            [raised |-> "TypeError", missing |-> MissingArguments(c)]]
            /\ UNCHANGED << evaluation_context, idx, rule_results,
                            blocking_failures, warnings >>
       ELSE /\ pc' = [pc EXCEPT ![p] = "rules"]
            /\ evaluation_context' = [evaluation_context EXCEPT ![p] = c]
            /\ idx' = [idx EXCEPT ![p] = 1]
            /\ rule_results' = [rule_results EXCEPT ![p] = NewList]
            /\ blocking_failures' = [blocking_failures EXCEPT ![p] = NewList]
            /\ warnings' = [warnings EXCEPT ![p] = NewList]
            /\ UNCHANGED result
    /\ UNCHANGED outsideAssess

\* One iteration of the loop, with the rules keeping the context they were last
\* given on the shared rule objects: the call reads the context of whichever
\* call in flight stored it first.
EvaluateRule_SharedContext(p) ==
    /\ pc[p] = "rules"
    /\ idx[p] <= Len(service[p])
    /\ LET q == CHOOSE c \in Calls :
                    /\ pc[c] = "rules"
                    /\ \A d \in Calls : pc[d] = "rules" => c <= d
           st == ForLoopStep(service[p], evaluation_context[q],
                    [idx |-> idx[p], rule_results |-> rule_results[p],
                     blocking_failures |-> blocking_failures[p],
                     warnings |-> warnings[p]])
       IN  /\ idx' = [idx EXCEPT ![p] = st.idx]
           /\ rule_results' = [rule_results EXCEPT ![p] = st.rule_results]
           /\ blocking_failures' = [blocking_failures EXCEPT ![p] = st.blocking_failures]
           /\ warnings' = [warnings EXCEPT ![p] = st.warnings]
    /\ UNCHANGED << pc, service, evaluation_context, result >>
    /\ UNCHANGED outsideAssess

\* One iteration of the loop over self.rules.
EvaluateRule(p) ==
    /\ pc[p] = "rules"
    /\ idx[p] <= Len(service[p])
    /\ LET st == ForLoopStep(service[p], evaluation_context[p],
                    [idx |-> idx[p], rule_results |-> rule_results[p],
                     blocking_failures |-> blocking_failures[p],
                     warnings |-> warnings[p]])
       IN  /\ idx' = [idx EXCEPT ![p] = st.idx]
           /\ rule_results' = [rule_results EXCEPT ![p] = st.rule_results]
           /\ blocking_failures' = [blocking_failures EXCEPT ![p] = st.blocking_failures]
           /\ warnings' = [warnings EXCEPT ![p] = st.warnings]
    /\ UNCHANGED << pc, service, evaluation_context, result >>
    /\ UNCHANGED outsideAssess

\* The loop is over: determine the outcome and return the dict.
DetermineOutcome(p) ==
    /\ pc[p] = "rules"
    /\ idx[p] > Len(service[p])
    /\ result' = [result EXCEPT ![p] =
                    AssessmentResult(rule_results[p], blocking_failures[p],
                                     warnings[p], evaluation_context[p])]
    /\ pc' = [pc EXCEPT ![p] = "done"]
    /\ UNCHANGED << service, evaluation_context, idx, rule_results,
                    blocking_failures, warnings >>
    /\ UNCHANGED outsideAssess

\* The caller has taken the result (or the error); the call's locals are gone.
Return(p) ==
    /\ pc[p] \in {"done", "raised"}
    /\ pc' = [pc EXCEPT ![p] = "idle"]
    /\ service' = [service EXCEPT ![p] = PyNone]
    /\ evaluation_context' = [evaluation_context EXCEPT ![p] = PyNone]
    /\ idx' = [idx EXCEPT ![p] = 0]
    /\ rule_results' = [rule_results EXCEPT ![p] = <<>>]
    /\ blocking_failures' = [blocking_failures EXCEPT ![p] = <<>>]
    /\ warnings' = [warnings EXCEPT ![p] = <<>>]
    /\ result' = [result EXCEPT ![p] = PyNone]
    /\ UNCHANGED outsideAssess

\* One call at a time, over every context.
Next ==
    \/ \E c \in Contexts : StartAssess(1, c)
    \/ EvaluateRule(1)
    \/ DetermineOutcome(1)
    \/ Return(1)

Spec == Init /\ [][Next]_vars

\* Calls on separate instances, interleaved in every way.
NextPair ==
    \E p \in Calls :
        \/ \E c \in PairContexts : StartAssess(p, c)
        \/ EvaluateRule(p)
        \/ DetermineOutcome(p)
        \/ Return(p)

SpecPair == Init /\ [][NextPair]_vars

(***************************************************************************)
(* Properties of assess.                                                   *)
(***************************************************************************)
Done(p) == pc[p] = "done"

FailedWith(verdict, severity) == ~verdict.passed /\ verdict.severity = severity

\* Some verdict of the trace failed with the given severity.
TraceHas(trace, severity) ==
    \E i \in DOMAIN trace : FailedWith(trace[i], severity)

\* The reasons of the verdicts of the trace that failed with the given
\* severity, in trace order.
FailureReasons(trace, severity) ==
    Reasons(SelectSeq(trace, LAMBDA v : FailedWith(v, severity)))

\* strs[1] | strs[2] | ... built from the left.
RECURSIVE PipeJoined(_)
PipeJoined(strs) ==
    IF Len(strs) = 0 THEN ""
    ELSE IF Len(strs) = 1 THEN strs[1]
    ELSE PipeJoined(SubSeq(strs, 1, Len(strs) - 1)) \o " | " \o strs[Len(strs)]

\* The context is what the data model asks for: typed fields, a day count
\* that is not negative, country names that are not empty.
WellFormed(c) ==
    /\ c.has_right_to_work.t = "bool"
    /\ c.is_sales_role.t = "bool"
    /\ c.duration_days.t = "int" /\ c.duration_days.i >= 0
    /\ c.home_country.t = "str" /\ c.home_country.s # ""
    /\ c.destination_country.t = "str" /\ c.destination_country.s # ""
    /\ c.ineligible_role_categories.t \in {"NoneType", "list"}

\* The role-category set of a well-formed context names one of the six.
NamesIneligibleCategory(c) ==
    /\ c.ineligible_role_categories.t = "list"
    /\ \E i \in DOMAIN c.ineligible_role_categories.l :
          c.ineligible_role_categories.l[i] \in
              {"frontline_customer_facing", "onsite_required", "legal_restrictions",
               "commercial_sales", "procurement", "senior_executive"}

\* A well-formed context on which no rule has anything to object to.
Ideal(c) ==
    /\ WellFormed(c)
    /\ ~is_country_blocked(c.destination_country.s)
    /\ c.has_right_to_work.b
    /\ ~c.is_sales_role.b
    /\ ~NamesIneligibleCategory(c)
    /\ c.duration_days.i <= 14

\* A well-formed context whose only defect is a sanctioned destination,
\* given by the table's name or by its code.
SanctionedOtherwiseIdeal(c) ==
    /\ WellFormed(c)
    /\ \E e \in Elems(SANCTIONED_COUNTRIES) :
          c.destination_country.s \in {e.name, e.code}
    /\ c.has_right_to_work.b
    /\ ~c.is_sales_role.b
    /\ ~NamesIneligibleCategory(c)
    /\ c.duration_days.i <= 14

\* The result carries the flag.
HasFlag(r, flag) ==
    /\ "flags" \in DOMAIN r
    /\ \E i \in DOMAIN r.flags : r.flags[i] = flag

\* C1: the outcome of every returned result follows the strict precedence
\* over the verdicts of its trace: rejected when some verdict failed with
\* severity block, otherwise escalated when some verdict failed with
\* severity warn, otherwise approved.
C1_OutcomePrecedence ==
    \A p \in Calls : Done(p) =>
        result[p].outcome =
            IF TraceHas(result[p].rules, "block") THEN "rejected"
            ELSE IF TraceHas(result[p].rules, "warn") THEN "escalated"
            ELSE "approved"

\* A result whose trace holds a block failure next to a warn verdict.
C1_Witness ==
    \E p \in Calls :
        /\ Done(p)
        /\ TraceHas(result[p].rules, "block")
        /\ TraceHas(result[p].rules, "warn")
        /\ result[p].outcome = "rejected"

\* C2: a call whose context has has_right_to_work = false returns rejected,
\* whatever the other fields hold.
C2_NoRightToWorkRejected ==
    \A p \in Calls :
        Done(p) /\ evaluation_context[p].has_right_to_work = PyBool(FALSE)
            => result[p].outcome = "rejected"

\* No right to work in a context that is ideal in every other respect.
C2_Witness ==
    \E p \in Calls :
        /\ Done(p)
        /\ evaluation_context[p] =
              Context(PyBool(FALSE), PyBool(FALSE), PyInt(10), PyStr("Denmark"),
                      PyStr("France"), PyNone)
        /\ result[p].outcome = "rejected"

C4_FullTrace ==
    \A p \in Calls :
        /\ pc[p] = "rules" => Len(rule_results[p]) = idx[p] - 1
        /\ Done(p) =>
              [i \in DOMAIN result[p].rules |-> result[p].rules[i].name] =
                  << "Blocked Country Check", "Right to Work", "Role Eligibility Check",
                     "Duration Limit", "Consecutive Days Limit", "Same Country Check" >>

\* A complete trace whose first rule failed with block and whose fourth raised.
C4_Witness ==
    \E p \in Calls :
        /\ Done(p)
        /\ FailedWith(result[p].rules[1], "block")
        /\ evaluate(COMPLIANCE_RULES[4], evaluation_context[p]).raised
        /\ Len(result[p].rules) = 6

\* C5: a rule that raises leaves, at its place in the trace, a failed verdict
\* of severity warn that names the rule and the error; the call still returns
\* a complete trace, and its outcome is rejected when some rule failed with
\* block and escalated otherwise, never approved.
C5_RuleErrorsEscalate ==
    \A p \in Calls : Done(p) =>
        \A i \in DOMAIN COMPLIANCE_RULES :
            LET r == evaluate(COMPLIANCE_RULES[i], evaluation_context[p]) IN
            r.raised =>
                /\ Len(result[p].rules) = Len(COMPLIANCE_RULES)
                /\ result[p].rules[i] =
                      [name |-> COMPLIANCE_RULES[i].name, passed |-> FALSE,
                       reason |-> "Error evaluating rule: " \o r.error,
                       severity |-> "warn"]
                /\ result[p].outcome =
                      IF TraceHas(result[p].rules, "block") THEN "rejected"
                      ELSE "escalated"

\* A rule raised and nothing blocked: the call is escalated.
C5_Witness ==
    \E p \in Calls :
        /\ Done(p)
        /\ evaluate(COMPLIANCE_RULES[1], evaluation_context[p]).raised
        /\ result[p].outcome = "escalated"

\* C6 as stated: no call returns an assessment for a context with a
\* malformed field.
C6_MalformedNeverAssessed ==
    \A p \in Calls : Done(p) => WellFormed(evaluation_context[p])

\* C7: on a well-formed context the outcome is approved exactly when the
\* destination is not blocked, the employee has the right to work, the sales
\* flag is off, no ineligible category is named and the duration is at most
\* 14; then every verdict passed and the result carries no flags.
C7_ApprovedIffIdeal ==
    \A p \in Calls :
        Done(p) /\ WellFormed(evaluation_context[p]) =>
            /\ result[p].outcome = "approved" <=> Ideal(evaluation_context[p])
            /\ result[p].outcome = "approved" =>
                  /\ \A i \in DOMAIN result[p].rules : result[p].rules[i].passed
                  /\ "flags" \notin DOMAIN result[p]

\* The scenario: right to work, no categories, 10 days, Denmark to France.
C7_Witness ==
    \E p \in Calls :
        /\ Done(p)
        /\ evaluation_context[p] =
              Context(PyBool(TRUE), PyBool(FALSE), PyInt(10), PyStr("Denmark"),
                      PyStr("France"), PyNone)
        /\ result[p].outcome = "approved"

\* C8: the primary reason is, for rejected, the reasons of the block failures
\* of the trace joined with " | " in trace order; for escalated, "Manual
\* review required. " and the warn reasons joined the same way; for approved,
\* the sentence naming the destination and the duration.
C8_PrimaryReason ==
    \A p \in Calls : Done(p) =>
        result[p].reason =
            CASE result[p].outcome = "rejected" ->
                    PipeJoined(FailureReasons(result[p].rules, "block"))
              [] result[p].outcome = "escalated" ->
                    "Manual review required. "
                        \o PipeJoined(FailureReasons(result[p].rules, "warn"))
              [] OTHER ->
                    "All compliance checks passed. Remote work in "
                        \o evaluation_context[p].destination_country.s \o " for "
                        \o IntStr(evaluation_context[p].duration_days.i)
                        \o " days is approved."

\* A rejection for three block failures next to a warn verdict.
C8_Witness ==
    \E p \in Calls :
        /\ Done(p)
        /\ result[p].outcome = "rejected"
        /\ Len(FailureReasons(result[p].rules, "block")) = 3
        /\ TraceHas(result[p].rules, "warn")

\* C9: escalation_note is the primary reason of an escalated result and the
\* empty string of any other.
C9_EscalationNote ==
    \A p \in Calls : Done(p) =>
        result[p].escalation_note =
            IF result[p].outcome = "escalated" THEN result[p].reason ELSE ""

\* An escalated result with its note.
C9_Witness ==
    \E p \in Calls :
        /\ Done(p)
        /\ result[p].outcome = "escalated"
        /\ result[p].escalation_note # ""

\* C10: two calls with the same context, on their own instances and however
\* their steps and other calls interleave, return the same result.
C10_Deterministic ==
    \A p, q \in Calls :
        Done(p) /\ Done(q) /\ evaluation_context[p] = evaluation_context[q]
            => result[p] = result[q]

\* Two calls returned for the same context, which was not approved.
C10_Witness ==
    \E p, q \in Calls :
        /\ p # q
        /\ Done(p) /\ Done(q)
        /\ evaluation_context[p] = evaluation_context[q]
        /\ result[p].outcome = "rejected"

(***************************************************************************)
(* Callers of blocked_countries.py (the rule, the wizard's serializer and   *)
(* view): a caller holds one text and calls the three functions on it, in  *)
(* any order.                                                              *)
(***************************************************************************)
NewLookup(country) ==
    [country |-> country, is_country_blocked |-> NotCalled,
     get_block_reason |-> NotCalled, get_block_message |-> NotCalled]

IsCountryBlocked ==
    /\ lookup # NoLookup
    /\ lookup.is_country_blocked = NotCalled
    /\ lookup' = [lookup EXCEPT
                    !.is_country_blocked = PyBool(is_country_blocked(lookup.country))]
    /\ UNCHANGED outsideLookup

GetBlockReason ==
    /\ lookup # NoLookup
    /\ lookup.get_block_reason = NotCalled
    /\ lookup' = [lookup EXCEPT !.get_block_reason = get_block_reason(lookup.country)]
    /\ UNCHANGED outsideLookup

GetBlockMessage ==
    /\ lookup # NoLookup
    /\ lookup.get_block_message = NotCalled
    /\ lookup' = [lookup EXCEPT !.get_block_message = get_block_message(lookup.country)]
    /\ UNCHANGED outsideLookup

\* The texts asked about: spellings of every name and code of the table, and
\* texts that are no entry's name or code.
Spellings(s) ==
    LET h == Len(s) \div 2
    IN  { s, lower(s), upper(s),
          upper(SubSeq(s, 1, h)) \o lower(SubSeq(s, h + 1, Len(s))),
          " " \o upper(s) \o " ",
          "\t" \o lower(s) \o "\n" }

SpellingsOf ==
    [i \in DOMAIN ALL_BLOCKED_COUNTRIES |->
        Spellings(ALL_BLOCKED_COUNTRIES[i].name)
            \cup Spellings(ALL_BLOCKED_COUNTRIES[i].code)]

NearMisses(e) ==
    { SubSeq(e.name, 1, Len(e.name) - 1),
      lower(e.name) \o "x",
      e.code \o SubSeq(e.code, 2, 2),
      SubSeq(e.code, 1, 1),
      SubSeq(e.code, 1, 1) \o " " \o SubSeq(e.code, 2, 2) }

CountryInputs ==
    UNION {SpellingsOf[i] : i \in DOMAIN ALL_BLOCKED_COUNTRIES}
        \cup UNION {NearMisses(ALL_BLOCKED_COUNTRIES[i]) : i \in DOMAIN ALL_BLOCKED_COUNTRIES}
        \cup {"", " ", "France", "Denmark", "Russian Federation", "RUS"}

InitCountry ==
    /\ NoAssess
    /\ scan = NoScan
    /\ PortalAtRest
    /\ lookup \in {NewLookup(c) : c \in CountryInputs}

NextCountry ==
    \/ IsCountryBlocked
    \/ GetBlockReason
    \/ GetBlockMessage

SpecCountry == InitCountry /\ [][NextCountry]_vars

\* The entries of the table that a text spells (by name or by code).
EntriesSpelled(text) ==
    {i \in DOMAIN ALL_BLOCKED_COUNTRIES : text \in SpellingsOf[i]}

\* C11: a text that spells the name or the code of a table entry, in any case
\* and with any surrounding whitespace, is classified blocked with that
\* entry's reason and that entry's message; a text that spells no entry is
\* classified not blocked, with no reason and no message.
C11_Classification ==
    lookup # NoLookup =>
        LET hits == EntriesSpelled(lookup.country)
        IN  /\ lookup.is_country_blocked \in {NotCalled, PyBool(hits # {})}
            /\ \A i \in hits :
                /\ lookup.get_block_reason
                      \in {NotCalled, PyStr(ALL_BLOCKED_COUNTRIES[i].reason)}
                /\ lookup.get_block_message
                      \in {NotCalled, MessageFor(ALL_BLOCKED_COUNTRIES[i])}
            /\ hits = {} =>
                /\ lookup.get_block_reason \in {NotCalled, PyNone}
                /\ lookup.get_block_message \in {NotCalled, PyNone}

\* A lower-case code between whitespace, classified by all three functions.
C11_Witness ==
    /\ lookup # NoLookup
    /\ lookup.country = "\tru\n"
    /\ lookup.is_country_blocked = PyBool(TRUE)
    /\ lookup.get_block_reason = PyStr("sanctions")
    /\ lookup.get_block_message # NotCalled
    /\ lookup.get_block_message # PyNone

(***************************************************************************)
(* A call of calculate_workdays, one pass of its loop at a time.           *)
(***************************************************************************)
NewScan(start_date, end_date) ==
    [pc |-> "called", start_date |-> start_date, end_date |-> end_date,
     locals |-> PyNone, returned |-> PyNone]

\* Lines 15-19: the guard on missing dates, then the locals.
WorkdaysEnter ==
    /\ scan # NoScan
    /\ scan.pc = "called"
    /\ scan' = IF NoDate(scan.start_date) \/ NoDate(scan.end_date)
               THEN [scan EXCEPT !.pc = "returned", !.returned = 0]
               ELSE [scan EXCEPT !.pc = "while",
                                 !.locals = WorkdaysLocals(scan.start_date)]
    /\ UNCHANGED outsideWorkdays

\* Lines 20-24: one pass of the loop.
WorkdaysLoop ==
    /\ scan # NoScan
    /\ scan.pc = "while"
    /\ WhileGuard(scan.locals, scan.end_date)
    /\ scan' = [scan EXCEPT !.locals = WhileBody(scan.locals)]
    /\ UNCHANGED outsideWorkdays

\* Line 25.
WorkdaysReturn ==
    /\ scan # NoScan
    /\ scan.pc = "while"
    /\ ~WhileGuard(scan.locals, scan.end_date)
    /\ scan' = [scan EXCEPT !.pc = "returned", !.returned = scan.locals.workdays]
    /\ UNCHANGED outsideWorkdays

\* The dates the function is called with: none, or a day of the weeks from
\* Monday 2024-01-01 on.
MaxSpan == 15
ScanDates == {PyNone} \cup {plus_days(ymd(2024, 1, 1), k) : k \in 0..MaxSpan}

InitWorkdays ==
    /\ NoAssess
    /\ lookup = NoLookup
    /\ PortalAtRest
    /\ scan \in {NewScan(s, e) : s \in ScanDates, e \in ScanDates}

NextWorkdays ==
    \/ WorkdaysEnter
    \/ WorkdaysLoop
    \/ WorkdaysReturn

\* The function runs on one thread, which keeps running it.
SpecWorkdays == InitWorkdays /\ [][NextWorkdays]_vars /\ WF_vars(NextWorkdays)

\* Monday to Friday, counted from a known Monday.
MonToFri(ordinal) == (ordinal - ymd(2024, 1, 1).ord) % 7 \in 0..4

WorkdaysBetween(start_date, end_date) ==
    Cardinality({o \in start_date.ord..end_date.ord : MonToFri(o)})

Returned_Workdays == scan # NoScan /\ scan.pc = "returned"

\* C12: calculate_workdays returns the number of dates from start to end,
\* both included, that fall on Monday to Friday: 0 when a date is missing or
\* start is after end, 1 for a single weekday, 0 for a single weekend day; and
\* every call returns.
C12_Workdays ==
    /\ [](Returned_Workdays =>
            /\ (NoDate(scan.start_date) \/ NoDate(scan.end_date)) => scan.returned = 0
            /\ (~NoDate(scan.start_date) /\ ~NoDate(scan.end_date)) =>
                /\ scan.returned = WorkdaysBetween(scan.start_date, scan.end_date)
                /\ scan.start_date.ord > scan.end_date.ord => scan.returned = 0
                /\ scan.start_date = scan.end_date =>
                     scan.returned = IF MonToFri(scan.start_date.ord) THEN 1 ELSE 0)
    /\ <>Returned_Workdays

\* Thursday to the Tuesday after: four workdays around a weekend.
C12_Witness ==
    /\ Returned_Workdays
    /\ scan.start_date = ymd(2024, 1, 4)
    /\ scan.end_date = ymd(2024, 1, 9)
    /\ scan.returned = 4

(***************************************************************************)
(* requests/models.py: RemoteWorkRequest, and the queries the views make.  *)
(***************************************************************************)
StatusChoices ==
    {"pending", "approved", "rejected", "escalated", "completed", "cancelled"}

\* RemoteWorkRequest(**validated_data, user=user): the fields the serializer
\* fills in, the others at their defaults.  The id (a fresh UUID in the code)
\* is the row's position in the table, 0 until the row is inserted;
\* created_year is the year of created_at, 0 until the row is inserted.
RemoteWorkRequest(id, user, data) ==
    [id |-> id,
     reference_number |-> "",
     created_year |-> 0,
     user |-> user,
     status |-> "pending",
     destination_country |-> data.destination_country,
     start_date |-> data.start_date,
     end_date |-> data.end_date,
     duration_days |-> 0,
     has_right_to_work |-> data.has_right_to_work,
     confirmed_role_eligible |-> data.confirmed_role_eligible,
     is_exception_request |-> data.is_exception_request,
     exception_reason |-> data.exception_reason,
     exception_type |-> "",
     decision_source |-> "auto",
     decision_status |-> "needs_review",
     flags |-> << >>]

\* A row an admin deleted.  Ids are never given twice, so the position stays
\* taken by a row that belongs to nobody and that no query returns.
Deleted(id) ==
    [RemoteWorkRequest(id, "", [destination_country |-> "", start_date |-> PyNone,
                                end_date |-> PyNone, has_right_to_work |-> FALSE,
                                confirmed_role_eligible |-> FALSE,
                                is_exception_request |-> FALSE, exception_reason |-> ""])
        EXCEPT !.status = "deleted"]

\* The rows that exist.
Stored(rows) == SelectSeq(rows, LAMBDA r : r.status # "deleted")

\* f"{count:04d}"
Pad04(count) ==
    IF count < 10 THEN "000" \o IntStr(count)
    ELSE IF count < 100 THEN "00" \o IntStr(count)
    ELSE IF count < 1000 THEN "0" \o IntStr(count)
    ELSE IntStr(count)

\* Lines 153-157: f"SIRW-{year}-{count:04d}" from the rows created in the year.
reference_number(rows, year) ==
    "SIRW-" \o IntStr(year) \o "-" \o
        Pad04(Len(SelectSeq(Stored(rows), LAMBDA r : r.created_year = year)) + 1)

\* RemoteWorkRequest.save up to super().save(): the duration is recomputed on
\* every save, the reference number is generated when there is none.
save(instance, rows, year) ==
    LET timed == IF ~NoDate(instance.start_date) /\ ~NoDate(instance.end_date)
                 THEN [instance EXCEPT !.duration_days =
                          calculate_workdays(instance.start_date, instance.end_date)]
                 ELSE instance
    IN  IF timed.reference_number = ""
        THEN [timed EXCEPT !.reference_number = reference_number(rows, year)]
        ELSE timed

\* unique=True on reference_number: the INSERT fails with an IntegrityError
\* when a row holds the number already.
UniqueViolation(instance, rows) ==
    \E i \in DOMAIN rows :
        /\ rows[i].status # "deleted"
        /\ rows[i].reference_number = instance.reference_number

RECURSIVE SumDurationDays(_)
SumDurationDays(rows) ==
    IF rows = << >> THEN 0
    ELSE Head(rows).duration_days + SumDurationDays(Tail(rows))

\* .aggregate(total=Sum("duration_days"))["total"]: None over no rows.
AggregateSum(rows) ==
    IF rows = << >> THEN PyNone ELSE PyInt(SumDurationDays(rows))

\* `x or 0`
OrZero(v) == IF Truthy(v) THEN v.i ELSE 0

max(a, b) == IF a >= b THEN a ELSE b

\* sirw_wizard_submit, lines 220-228.
wizard_days_used(rows, user, year) ==
    OrZero(AggregateSum(SelectSeq(rows, LAMBDA r :
        /\ r.user = user
        /\ r.status \in {"approved", "completed"}
        /\ year_of(r.start_date) = year)))

\* sirw_annual_balance, lines 420-428.
year_requests(rows, user, year) ==
    SelectSeq(rows, LAMBDA r : r.user = user /\ year_of(r.start_date) = year)

\* A balance that counts what is waiting for review too.
approved_requests_WithEscalated(rows) ==
    SelectSeq(rows, LAMBDA r : r.status \in {"approved", "completed", "escalated"})

approved_requests(rows) ==
    SelectSeq(rows, LAMBDA r : r.status \in {"approved", "completed"})

\* users/models.py: User.days_used and User.days_remaining.
User_days_used(rows, user, year) ==
    OrZero(AggregateSum(SelectSeq(rows, LAMBDA r :
        /\ r.user = user
        /\ r.status \in {"approved", "completed"}
        /\ year_of(r.start_date) = year)))

User_days_remaining(rows, user, year, allowed) ==
    max(0, allowed - User_days_used(rows, user, year))

(***************************************************************************)
(* requests/serializers.py: SIRWWizardRequestSerializer.                   *)
(***************************************************************************)
\* A validation that leaves the right to work to the view.
SIRWWizardRequestSerializer_errors_NoRightToWork(data) ==
    IF is_country_blocked(data.destination_country) THEN "destination_country"
    ELSE IF data.start_date.ord > data.end_date.ord THEN "end_date"
    ELSE IF ~data.confirmed_role_eligible THEN "confirmed_role_eligible"
    ELSE IF /\ calculate_workdays(data.start_date, data.end_date) > MAX_SINGLE_TRIP_DAYS
            /\ ~data.is_exception_request
         THEN "is_exception_request"
    ELSE IF data.is_exception_request /\ data.exception_reason = ""
         THEN "exception_reason"
    ELSE ""

\* The field is_valid() reports, "" when the data is valid.
SIRWWizardRequestSerializer_errors(data) ==
    IF is_country_blocked(data.destination_country) THEN "destination_country"
    ELSE IF data.start_date.ord > data.end_date.ord THEN "end_date"
    ELSE IF ~data.has_right_to_work THEN "has_right_to_work"
    ELSE IF ~data.confirmed_role_eligible THEN "confirmed_role_eligible"
    ELSE IF /\ calculate_workdays(data.start_date, data.end_date) > MAX_SINGLE_TRIP_DAYS
            /\ ~data.is_exception_request
         THEN "is_exception_request"
    ELSE IF data.is_exception_request /\ data.exception_reason = ""
         THEN "exception_reason"
    ELSE ""

(***************************************************************************)
(* requests/views.py: sirw_wizard_submit, in four steps: the validation     *)
(* and the reads, serializer.save() up to its INSERT, the INSERT, the       *)
(* decision with the UPDATE of instance.save() and the response.            *)
(***************************************************************************)
MaxRequests == 2
MaxIds == 3

AtRest(w) == handler[w].pc = "responded"

\* The number of submissions between their validation and their INSERT.
InFlight == Cardinality({w \in Workers : handler[w].pc \in {"create", "insert"}})

\* A check that takes the allowance itself for too much.
WouldExceedAnnual_AtLimit(days_used, request_days) ==
    (days_used + request_days) >= DEFAULT_DAYS_ALLOWED

\* Line 239.
WouldExceedAnnual(days_used, request_days) ==
    (days_used + request_days) > DEFAULT_DAYS_ALLOWED

\* Lines 209-241.
WizardValidate(w, user, data) ==
    /\ AtRest(w)
    /\ Len(Stored(requests)) + InFlight < MaxRequests
    /\ Len(requests) + InFlight < MaxIds
    /\ LET errors == SIRWWizardRequestSerializer_errors(data)
           days_used == wizard_days_used(requests, user, current_year)
           request_days == calculate_workdays(data.start_date, data.end_date)
       IN  handler' = [handler EXCEPT ![w] =
              IF errors # ""
              THEN [view |-> "sirw_wizard_submit", pc |-> "responded",
                    user |-> user, data |-> data,
                    response |-> [status |-> 400, errors |-> errors]]
              ELSE [view |-> "sirw_wizard_submit", pc |-> "create",
                    user |-> user, data |-> data,
                    current_year |-> current_year,
                    days_used |-> days_used,
                    request_days |-> request_days,
                    would_exceed_annual |->
                        WouldExceedAnnual(days_used, request_days),
                    exceeds_consecutive |-> request_days > MAX_CONSECUTIVE_DAYS,
                    is_exception |-> data.is_exception_request]]
    /\ UNCHANGED << current_year, days_allowed, requests >>
    /\ UNCHANGED outsidePortal

\* Line 244, serializer.save(), up to the INSERT: the instance is built and
\* RemoteWorkRequest.save gives it its duration and its reference number.
WizardCreate(w) ==
    /\ handler[w].view = "sirw_wizard_submit"
    /\ handler[w].pc = "create"
    /\ handler' = [handler EXCEPT ![w] =
          [view |-> "sirw_wizard_submit", pc |-> "insert",
           user |-> handler[w].user, data |-> handler[w].data,
           current_year |-> handler[w].current_year,
           days_used |-> handler[w].days_used,
           request_days |-> handler[w].request_days,
           would_exceed_annual |-> handler[w].would_exceed_annual,
           exceeds_consecutive |-> handler[w].exceeds_consecutive,
           is_exception |-> handler[w].is_exception,
           instance |-> save(RemoteWorkRequest(0, handler[w].user, handler[w].data),
                             requests, current_year)]]
    /\ UNCHANGED << current_year, days_allowed, requests >>
    /\ UNCHANGED outsidePortal

\* super().save(): the INSERT, which fails when the reference number is taken;
\* the view does not catch the error and the request is answered with 500.
WizardInsert(w) ==
    /\ handler[w].view = "sirw_wizard_submit"
    /\ handler[w].pc = "insert"
    /\ IF UniqueViolation(handler[w].instance, requests)
       THEN /\ handler' = [handler EXCEPT ![w] =
                  [view |-> "sirw_wizard_submit", pc |-> "responded",
                   user |-> handler[w].user, data |-> handler[w].data,
                   current_year |-> handler[w].current_year,
                   response |-> [status |-> 500, error |-> "IntegrityError",
                                 reference_number |-> handler[w].instance.reference_number]]]
            /\ UNCHANGED requests
       ELSE LET instance == [handler[w].instance EXCEPT
                                !.id = Len(requests) + 1,
                                !.created_year = current_year]
            IN  /\ requests' = Append(requests, instance)
                /\ handler' = [handler EXCEPT ![w] =
                      [view |-> "sirw_wizard_submit", pc |-> "decide",
                       user |-> handler[w].user, data |-> handler[w].data,
                       current_year |-> handler[w].current_year,
                       days_used |-> handler[w].days_used,
                       request_days |-> handler[w].request_days,
                       would_exceed_annual |-> handler[w].would_exceed_annual,
                       exceeds_consecutive |-> handler[w].exceeds_consecutive,
                       is_exception |-> handler[w].is_exception,
                       pk |-> Len(requests) + 1,
                       instance |-> instance]]
    /\ UNCHANGED << current_year, days_allowed >>
    /\ UNCHANGED outsidePortal

\* Lines 246-320: the status, the outcome and the flags.
Decide(instance, is_exception, would_exceed_annual, exceeds_consecutive) ==
    IF is_country_blocked(instance.destination_country)
    THEN [status |-> "rejected", decision_status |-> "auto_rejected",
          outcome |-> "rejected", flags |-> << "sanctioned_country" >>]
    ELSE IF ~instance.has_right_to_work
    THEN [status |-> "rejected", decision_status |-> "auto_rejected",
          outcome |-> "rejected", flags |-> << "no_right_to_work" >>]
    ELSE IF ~instance.confirmed_role_eligible
    THEN [status |-> "rejected", decision_status |-> "auto_rejected",
          outcome |-> "rejected", flags |-> << "role_ineligible" >>]
    ELSE IF is_exception \/ would_exceed_annual \/ exceeds_consecutive
    THEN [status |-> "escalated", decision_status |-> "needs_review",
          outcome |-> "pending",
          flags |->
              (IF would_exceed_annual THEN << "exceeds_annual_limit" >> ELSE << >>)
              \o (IF exceeds_consecutive
                  THEN << "exceeds_consecutive_limit" >> ELSE << >>)
              \o (IF is_exception /\ instance.exception_type # ""
                  THEN << "exception:" \o instance.exception_type >> ELSE << >>)]
    ELSE [status |-> "approved", decision_status |-> "auto_approved",
          outcome |-> "approved", flags |-> << >>]

\* Lines 336-349: the body of the response.
WizardResponse(instance, outcome, days_used, request_days) ==
    [status |-> 201,
     body |-> [status |-> instance.status,
               outcome |-> outcome,
               days_used_this_year |-> days_used,
               days_remaining |->
                   IF outcome = "approved"
                   THEN max(0, DEFAULT_DAYS_ALLOWED - days_used - request_days)
                   ELSE max(0, DEFAULT_DAYS_ALLOWED - days_used)]]

\* Lines 246-349.
WizardDecide(w) ==
    /\ handler[w].view = "sirw_wizard_submit"
    /\ handler[w].pc = "decide"
    /\ LET f == handler[w]
           d == Decide(f.instance, f.is_exception, f.would_exceed_annual,
                       f.exceeds_consecutive)
           instance == save([f.instance EXCEPT
                                !.status = d.status,
                                !.decision_status = d.decision_status,
                                !.decision_source = "auto",
                                !.flags = d.flags], requests, current_year)
       IN  \* The UPDATE of a row deleted in between matches nothing and
           \* instance.save() falls back to an INSERT.
           IF requests[f.pk].status = "deleted" /\ UniqueViolation(instance, requests)
           THEN /\ handler' = [handler EXCEPT ![w] =
                      [view |-> "sirw_wizard_submit", pc |-> "responded",
                       user |-> f.user, data |-> f.data,
                       current_year |-> f.current_year,
                       response |-> [status |-> 500, error |-> "IntegrityError",
                                     reference_number |-> instance.reference_number]]]
                /\ UNCHANGED requests
           ELSE /\ requests' = [requests EXCEPT ![f.pk] = instance]
                /\ handler' = [handler EXCEPT ![w] =
                      [view |-> "sirw_wizard_submit", pc |-> "responded",
                       user |-> f.user, data |-> f.data,
                       current_year |-> f.current_year,
                       pk |-> f.pk,
                       response |-> WizardResponse(instance, d.outcome, f.days_used,
                                                   f.request_days)]]
    /\ UNCHANGED << current_year, days_allowed >>
    /\ UNCHANGED outsidePortal

(***************************************************************************)
(* requests/views.py: sirw_annual_balance; users/views.py: days_remaining. *)
(***************************************************************************)
AnnualBalance(w, user) ==
    /\ AtRest(w)
    /\ LET rows == year_requests(requests, user, current_year)
           days_used == OrZero(AggregateSum(approved_requests(rows)))
       IN  handler' = [handler EXCEPT ![w] =
              [view |-> "sirw_annual_balance", pc |-> "responded", user |-> user,
               response |->
                 [status |-> 200,
                  body |-> [year |-> current_year,
                            days_allowed |-> DEFAULT_DAYS_ALLOWED,
                            days_used |-> days_used,
                            days_remaining |-> max(0, DEFAULT_DAYS_ALLOWED - days_used),
                            pending_days |->
                                OrZero(AggregateSum(SelectSeq(rows,
                                    LAMBDA r : r.status = "escalated")))]]]]
    /\ UNCHANGED << current_year, days_allowed, requests >>
    /\ UNCHANGED outsidePortal

DaysRemaining(w, user) ==
    /\ AtRest(w)
    /\ handler' = [handler EXCEPT ![w] =
          [view |-> "days_remaining", pc |-> "responded", user |-> user,
           current_year |-> current_year,
           response |->
             [status |-> 200,
              body |-> [used |-> User_days_used(requests, user, current_year),
                        allowed |-> days_allowed[user],
                        remaining |-> User_days_remaining(requests, user, current_year,
                                                          days_allowed[user])]]]]
    /\ UNCHANGED << current_year, days_allowed, requests >>
    /\ UNCHANGED outsidePortal

(***************************************************************************)
(* requests/views.py: RemoteWorkRequestViewSet.partial_update and destroy. *)
(***************************************************************************)
\* get_object() on the queryset of the user's own requests.
Found(pk, user) == pk \in DOMAIN requests /\ requests[pk].user = user

PartialUpdate(w, user, pk, status) ==
    /\ AtRest(w)
    /\ IF ~Found(pk, user)
       THEN /\ handler' = [handler EXCEPT ![w] =
                  [view |-> "partial_update", pc |-> "responded", user |-> user,
                   pk |-> pk, response |-> [status |-> 404]]]
            /\ UNCHANGED requests
       ELSE IF status \notin StatusChoices
       THEN /\ handler' = [handler EXCEPT ![w] =
                  [view |-> "partial_update", pc |-> "responded", user |-> user,
                   pk |-> pk, response |-> [status |-> 400, errors |-> "status"]]]
            /\ UNCHANGED requests
       ELSE /\ requests' = [requests EXCEPT
                              ![pk] = save([requests[pk] EXCEPT !.status = status],
                                          requests, current_year)]
            /\ handler' = [handler EXCEPT ![w] =
                  [view |-> "partial_update", pc |-> "responded", user |-> user,
                   pk |-> pk, response |-> [status |-> 200]]]
    /\ UNCHANGED << current_year, days_allowed >>
    /\ UNCHANGED outsidePortal

\* A destroy that refuses completed requests only.
Destroy_CompletedOnly(w, user, pk) ==
    /\ AtRest(w)
    /\ IF ~Found(pk, user)
       THEN /\ handler' = [handler EXCEPT ![w] =
                  [view |-> "destroy", pc |-> "responded", user |-> user,
                   pk |-> pk, response |-> [status |-> 404]]]
            /\ UNCHANGED requests
       ELSE IF requests[pk].status \in {"completed"}
       THEN /\ handler' = [handler EXCEPT ![w] =
                  [view |-> "destroy", pc |-> "responded", user |-> user,
                   pk |-> pk, response |-> [status |-> 400]]]
            /\ UNCHANGED requests
       ELSE /\ requests' = [requests EXCEPT
                              ![pk] = save([requests[pk] EXCEPT !.status = "cancelled"],
                                          requests, current_year)]
            /\ handler' = [handler EXCEPT ![w] =
                  [view |-> "destroy", pc |-> "responded", user |-> user,
                   pk |-> pk, response |-> [status |-> 204]]]
    /\ UNCHANGED << current_year, days_allowed >>
    /\ UNCHANGED outsidePortal

\* views.py, destroy: the soft delete.
Destroy(w, user, pk) ==
    /\ AtRest(w)
    /\ IF ~Found(pk, user)
       THEN /\ handler' = [handler EXCEPT ![w] =
                  [view |-> "destroy", pc |-> "responded", user |-> user,
                   pk |-> pk, response |-> [status |-> 404]]]
            /\ UNCHANGED requests
       ELSE IF requests[pk].status \in {"approved", "completed"}
       THEN /\ handler' = [handler EXCEPT ![w] =
                  [view |-> "destroy", pc |-> "responded", user |-> user,
                   pk |-> pk, response |-> [status |-> 400]]]
            /\ UNCHANGED requests
       ELSE /\ requests' = [requests EXCEPT
                              ![pk] = save([requests[pk] EXCEPT !.status = "cancelled"],
                                          requests, current_year)]
            /\ handler' = [handler EXCEPT ![w] =
                  [view |-> "destroy", pc |-> "responded", user |-> user,
                   pk |-> pk, response |-> [status |-> 204]]]
    /\ UNCHANGED << current_year, days_allowed >>
    /\ UNCHANGED outsidePortal

\* The clock passes midnight of December 31st.
LastYear == 2025
NewYear ==
    /\ current_year < LastYear
    /\ current_year' = current_year + 1
    /\ UNCHANGED << days_allowed, requests, handler >>
    /\ UNCHANGED outsidePortal

(***************************************************************************)
(* The balance: submissions through the wizard, status changes, and the     *)
(* two balance views, one request at a time.                               *)
(***************************************************************************)
Submission(destination_country, start_date, end_date, rtw, eligible, exception, reason) ==
    [destination_country |-> destination_country,
     start_date |-> start_date, end_date |-> end_date,
     has_right_to_work |-> rtw,
     confirmed_role_eligible |-> eligible,
     is_exception_request |-> exception,
     exception_reason |-> reason]

\* A trip the serializer accepts without an exception request.
Trip(start_date, end_date) ==
    Submission("Germany", start_date, end_date, TRUE, TRUE, FALSE, "")

\* Ten workdays; eleven; five across New Year; five in the next year;
\* fifteen in a row; twenty-one as an exception.
TwoWeeks == Trip(ymd(2024, 3, 4), ymd(2024, 3, 15))
ElevenDays == Trip(ymd(2024, 4, 1), ymd(2024, 4, 15))
OverNewYear == Trip(ymd(2024, 12, 30), ymd(2025, 1, 3))
NextJanuary == Trip(ymd(2025, 1, 6), ymd(2025, 1, 10))
ThreeWeeks == Trip(ymd(2024, 5, 6), ymd(2024, 5, 24))
LongStay ==
    Submission("Germany", ymd(2024, 6, 3), ymd(2024, 7, 1), TRUE, TRUE, TRUE,
               "family care")

\* Submissions the serializer turns down.
InvalidSubmissions ==
    { Submission("russia", ymd(2024, 3, 4), ymd(2024, 3, 15), TRUE, TRUE, FALSE, ""),
      Trip(ymd(2024, 3, 15), ymd(2024, 3, 4)),
      Submission("Germany", ymd(2024, 3, 4), ymd(2024, 3, 15), FALSE, TRUE, FALSE, ""),
      Submission("Germany", ymd(2024, 3, 4), ymd(2024, 3, 15), TRUE, FALSE, FALSE, ""),
      Submission("Germany", ymd(2024, 6, 3), ymd(2024, 7, 1), TRUE, TRUE, FALSE, ""),
      Submission("Germany", ymd(2024, 3, 4), ymd(2024, 3, 15), TRUE, TRUE, TRUE, "") }

BalanceSubmissions(user) ==
    IF user = "ana"
    THEN { TwoWeeks, ElevenDays, OverNewYear, NextJanuary, ThreeWeeks, LongStay }
            \cup InvalidSubmissions
    ELSE { TwoWeeks }

StatusInputs == StatusChoices \cup {"done"}

NextBalance ==
    \/ \E u \in Users : \E data \in BalanceSubmissions(u) : WizardValidate(1, u, data)
    \/ WizardCreate(1)
    \/ WizardInsert(1)
    \/ WizardDecide(1)
    \/ \E u \in Users : AnnualBalance(1, u)
    \/ \E u \in Users : DaysRemaining(1, u)
    \/ \E u \in Users : \E pk \in 1..MaxRequests : \E st \in StatusInputs :
          PartialUpdate(1, u, pk, st)
    \/ \E u \in Users : \E pk \in 1..MaxRequests : Destroy(1, u, pk)
    \/ NewYear

SpecBalance == Init /\ [][NextBalance]_vars

(***************************************************************************)
(* Properties of the balance.                                              *)
(***************************************************************************)
Responded(w, view) ==
    /\ handler[w].view = view
    /\ handler[w].pc = "responded"
    /\ handler[w].response.status \in {200, 201}

\* The stored requests of a user that count towards a year: approved or
\* completed, and starting in that year.  `except` is a row left out (0: none).
CountedRequests(user, year, except) ==
    {i \in DOMAIN requests :
        /\ i # except
        /\ requests[i].user = user
        /\ requests[i].status \in {"approved", "completed"}
        /\ days_before_year(year) < requests[i].start_date.ord
        /\ requests[i].start_date.ord <= days_before_year(year + 1)}

RECURSIVE StoredDays(_)
StoredDays(ids) ==
    IF ids = {} THEN 0
    ELSE LET i == CHOOSE i \in ids : TRUE
         IN  requests[i].duration_days + StoredDays(ids \ {i})

\* C13: the days-used figure the balance view, the user's days-remaining view
\* and the wizard report for a user and a year is the sum of the stored
\* duration_days of the user's requests that are approved or completed and
\* start in that year (for the wizard: of the requests stored before the
\* submission); no other status and no other start year contributes.
C13_AnnualDaysUsed ==
    \A w \in Workers :
        /\ Responded(w, "sirw_annual_balance") =>
              handler[w].response.body.days_used =
                  StoredDays(CountedRequests(handler[w].user,
                                             handler[w].response.body.year, 0))
        /\ Responded(w, "days_remaining") =>
              handler[w].response.body.used =
                  StoredDays(CountedRequests(handler[w].user,
                                             handler[w].current_year, 0))
        /\ Responded(w, "sirw_wizard_submit") =>
              handler[w].response.body.days_used_this_year =
                  StoredDays(CountedRequests(handler[w].user,
                                             handler[w].current_year, handler[w].pk))

\* The balance for 2024 of a user with an approved request that runs from
\* 2024 into 2025 and a request that is in another status: five days used.
C13_Witness ==
    \E w \in Workers :
        /\ Responded(w, "sirw_annual_balance")
        /\ handler[w].response.body.year = 2024
        /\ handler[w].response.body.days_used = 5
        /\ \E i, j \in DOMAIN requests :
            /\ requests[i].user = handler[w].user
            /\ requests[i].status = "approved"
            /\ year_of(requests[i].start_date) = 2024
            /\ year_of(requests[i].end_date) = 2025
            /\ requests[j].user = handler[w].user
            /\ requests[j].status = "escalated"
            /\ requests[j].duration_days > 0

\* A response of the wizard to a submission it stored.
Submitted(w) == Responded(w, "sirw_wizard_submit")

\* The days the user had used in the year of the submission, and the workdays
\* of the submission, counted from the table and the calendar.
UsedBefore(w) ==
    StoredDays(CountedRequests(handler[w].user, handler[w].current_year, handler[w].pk))
Requested(w) ==
    WorkdaysBetween(handler[w].data.start_date, handler[w].data.end_date)

\* C14: a submission whose workdays, added to the days the user has used in
\* the year, exceed the annual allowance is not approved: it is stored as
\* escalated, for review, with the flag exceeds_annual_limit; a submission that
\* stays within the allowance (20 exactly included) does not get the flag.
C14_AnnualLimit ==
    \A w \in Workers : Submitted(w) =>
        LET row == requests[handler[w].pk]
            over == UsedBefore(w) + Requested(w) > DEFAULT_DAYS_ALLOWED
        IN  /\ over =>
                /\ row.status = "escalated"
                /\ row.decision_status = "needs_review"
                /\ handler[w].response.body.outcome # "approved"
                /\ \E i \in DOMAIN row.flags : row.flags[i] = "exceeds_annual_limit"
            /\ ~over =>
                \A i \in DOMAIN row.flags : row.flags[i] # "exceeds_annual_limit"

\* Eleven workdays on top of ten used: escalated for the annual limit alone.
C14_Witness ==
    \E w \in Workers :
        /\ Submitted(w)
        /\ UsedBefore(w) = 10
        /\ Requested(w) = 11
        /\ requests[handler[w].pk].status = "escalated"
        /\ requests[handler[w].pk].flags = << "exceeds_annual_limit" >>

\* Ten workdays on top of ten used: approved at the allowance exactly.
C14_AtTheLimit ==
    \E w \in Workers :
        /\ Submitted(w)
        /\ UsedBefore(w) + Requested(w) = DEFAULT_DAYS_ALLOWED
        /\ requests[handler[w].pk].status = "approved"

(***************************************************************************)
(* requests/views.py: check_date_overlap.                                  *)
(***************************************************************************)
Digits == "0123456789"
DigitValue ==
    [ch \in {SubSeq(Digits, i, i) : i \in 1..10} |->
        (CHOOSE i \in 1..10 : SubSeq(Digits, i, i) = ch) - 1]

IsNumeral(s) ==
    s # "" /\ \A i \in 1..Len(s) : SubSeq(s, i, i) \in DOMAIN DigitValue

RECURSIVE NumeralValue(_)
NumeralValue(s) ==
    IF s = "" THEN 0
    ELSE 10 * NumeralValue(SubSeq(s, 1, Len(s) - 1))
            + DigitValue[SubSeq(s, Len(s), Len(s))]

\* datetime.strptime(text, "%Y-%m-%d").date(): four digits, one or two, one or
\* two, between hyphens, naming a day of the calendar; None stands for the
\* ValueError.
strptime_date(text) ==
    LET hyphens == {i \in 1..Len(text) : SubSeq(text, i, i) = "-"}
    IN  IF Cardinality(hyphens) # 2 THEN PyNone
        ELSE LET i == CHOOSE i \in hyphens : \A j \in hyphens : i <= j
                 j == CHOOSE j \in hyphens : \A i2 \in hyphens : i2 <= j
                 Y == SubSeq(text, 1, i - 1)
                 m == SubSeq(text, i + 1, j - 1)
                 d == SubSeq(text, j + 1, Len(text))
             IN  IF /\ Len(Y) = 4 /\ IsNumeral(Y) /\ NumeralValue(Y) >= 1
                    /\ Len(m) \in 1..2 /\ IsNumeral(m) /\ NumeralValue(m) \in 1..12
                    /\ Len(d) \in 1..2 /\ IsNumeral(d)
                    /\ NumeralValue(d) \in 1..DaysInMonth(NumeralValue(Y))[NumeralValue(m)]
                 THEN ymd(NumeralValue(Y), NumeralValue(m), NumeralValue(d))
                 ELSE PyNone

\* Line 492.
buffer_days == 7

\* A window whose ends do not belong to it.
InWindow_EndsExcluded(r, overlap_start, overlap_end) ==
    /\ r.start_date.ord < overlap_end.ord
    /\ r.end_date.ord > overlap_start.ord

\* Lines 503-504: start_date__lte=overlap_end, end_date__gte=overlap_start.
InWindow(r, overlap_start, overlap_end) ==
    /\ r.start_date.ord <= overlap_end.ord
    /\ r.end_date.ord >= overlap_start.ord

\* Lines 496-507.
nearby_requests(rows, user, overlap_start, overlap_end) ==
    SelectSeq(rows, LAMBDA r :
        /\ r.user = user
        /\ r.status \in {"approved", "completed", "escalated", "pending"}
        /\ InWindow(r, overlap_start, overlap_end)
        /\ ~(r.status = "cancelled"))

\* A total that leaves the candidate's own days out.
combined_days_NearbyOnly(nearby, start, end) ==
    IF nearby # << >> THEN SumDurationDays(nearby) ELSE 0

\* Lines 511-516.
combined_days(nearby, start, end) ==
    IF nearby # << >>
    THEN SumDurationDays(nearby) + calculate_workdays(start, end)
    ELSE 0

\* A warning from fourteen days on.
Warning_FromFourteen(has_overlap, combined) ==
    IF has_overlap /\ combined >= 14
    THEN PyStr("Combined with nearby requests, this would total " \o IntStr(combined)
               \o " workdays. Consider whether this effectively circumvents the "
               \o "14-day consecutive limit.")
    ELSE PyNone

\* Lines 523-528.
Warning(has_overlap, combined) ==
    IF has_overlap /\ combined > 14
    THEN PyStr("Combined with nearby requests, this would total " \o IntStr(combined)
               \o " workdays. Consider whether this effectively circumvents the "
               \o "14-day consecutive limit.")
    ELSE PyNone

\* start_date and end_date are request.data.get(...): a str, or None.
CheckDateOverlap(w, user, start_date, end_date) ==
    /\ AtRest(w)
    /\ LET start == strptime_date(start_date.s)
           end == strptime_date(end_date.s)
           nearby == nearby_requests(requests, user, plus_days(start, -buffer_days),
                                     plus_days(end, buffer_days))
           combined == combined_days(nearby, start, end)
       IN  handler' = [handler EXCEPT ![w] =
              IF ~Truthy(start_date) \/ ~Truthy(end_date)
              THEN [view |-> "check_date_overlap", pc |-> "responded", user |-> user,
                    response |-> [status |-> 400,
                                  error |-> "start_date and end_date are required."]]
              ELSE IF start = PyNone \/ end = PyNone
              THEN [view |-> "check_date_overlap", pc |-> "responded", user |-> user,
                    response |-> [status |-> 400,
                                  error |-> "Invalid date format. Use YYYY-MM-DD."]]
              ELSE [view |-> "check_date_overlap", pc |-> "responded", user |-> user,
                    start |-> start, end |-> end,
                    response |->
                      [status |-> 200,
                       body |-> [has_overlap |-> nearby # << >>,
                                 nearby_requests |-> [i \in DOMAIN nearby |-> nearby[i].id],
                                 combined_days |-> combined,
                                 warning |-> Warning(nearby # << >>, combined)]]]]
    /\ UNCHANGED << current_year, days_allowed, requests >>
    /\ UNCHANGED outsidePortal

(***************************************************************************)
(* The overlap check: requests around the middle of March 2024, and         *)
(* candidates from the 12th on.                                            *)
(***************************************************************************)
\* Six workdays inside the window of every candidate; seven ending on the
\* 5th and six ending on the 4th; two starting on the 21st and six starting
\* on the 22nd.
EarlyMarch == Trip(ymd(2024, 3, 1), ymd(2024, 3, 10))
UntilThe5th == Trip(ymd(2024, 2, 26), ymd(2024, 3, 5))
UntilThe4th == Trip(ymd(2024, 2, 26), ymd(2024, 3, 4))
FromThe21st == Trip(ymd(2024, 3, 21), ymd(2024, 3, 22))
FromThe22nd == Trip(ymd(2024, 3, 22), ymd(2024, 3, 29))

OverlapSubmissions(user) ==
    IF user = "ana"
    THEN { EarlyMarch, UntilThe5th, UntilThe4th, FromThe21st, FromThe22nd }
    ELSE { EarlyMarch }

\* The start_date and end_date of the checks.
Candidates ==
    { << PyStr("2024-03-12"), PyStr("2024-03-14") >>,
      << PyStr("2024-3-12"), PyStr("2024-03-13") >>,
      << PyStr("2024-03-14"), PyStr("2024-03-12") >>,
      << PyStr("2024-03-16"), PyStr("2024-03-17") >>,
      << PyNone, PyStr("2024-03-14") >>,
      << PyStr("2024-03-12"), PyStr("") >>,
      << PyStr("12/03/2024"), PyStr("2024-03-14") >>,
      << PyStr("2024-02-30"), PyStr("2024-03-14") >> }

NextOverlap ==
    \/ \E u \in Users : \E data \in OverlapSubmissions(u) : WizardValidate(1, u, data)
    \/ WizardCreate(1)
    \/ WizardInsert(1)
    \/ WizardDecide(1)
    \/ \E u \in Users : \E pk \in 1..MaxRequests : \E st \in StatusInputs :
          PartialUpdate(1, u, pk, st)
    \/ \E u \in Users : \E pk \in 1..MaxRequests : Destroy(1, u, pk)
    \/ \E u \in Users : \E c \in Candidates : CheckDateOverlap(1, u, c[1], c[2])

SpecOverlap == Init /\ [][NextOverlap]_vars

(***************************************************************************)
(* Properties of the overlap check.                                        *)
(***************************************************************************)
Checked(w) == Responded(w, "check_date_overlap")

\* The stored requests of the user whose range meets the candidate's range
\* widened by seven days on each side.
AroundCandidate(w) ==
    {i \in DOMAIN requests :
        /\ requests[i].user = handler[w].user
        /\ requests[i].start_date.ord <= handler[w].end.ord + 7
        /\ requests[i].end_date.ord >= handler[w].start.ord - 7}

Reported(w) ==
    {handler[w].response.body.nearby_requests[i] :
        i \in DOMAIN handler[w].response.body.nearby_requests}

WithCandidate(w) ==
    StoredDays(Reported(w)) + WorkdaysBetween(handler[w].start, handler[w].end)

\* C16 as claimed: combined_days is the stored days of the nearby requests
\* plus the candidate's own workdays, also when no request is nearby.
C16_CombinedAlways ==
    \A w \in Workers : Checked(w) =>
        handler[w].response.body.combined_days = WithCandidate(w)

\* C16: when a request is nearby, combined_days is the stored days of the
\* nearby requests plus the candidate's own workdays; when none is nearby,
\* combined_days is 0.
C16_Combined ==
    \A w \in Workers : Checked(w) =>
        handler[w].response.body.combined_days =
            IF handler[w].response.body.has_overlap THEN WithCandidate(w) ELSE 0

\* Seven stored days nearby and a candidate of three: ten.
C16_Witness ==
    \E w \in Workers :
        /\ Checked(w)
        /\ handler[w].response.body.has_overlap
        /\ StoredDays(Reported(w)) = 7
        /\ WorkdaysBetween(handler[w].start, handler[w].end) = 3
        /\ handler[w].response.body.combined_days = 10

\* A candidate of three workdays with nothing nearby: zero.
C16_NothingNearby ==
    \E w \in Workers :
        /\ Checked(w)
        /\ ~handler[w].response.body.has_overlap
        /\ WorkdaysBetween(handler[w].start, handler[w].end) = 3
        /\ handler[w].response.body.combined_days = 0

\* A step that serves a check_date_overlap request.
OverlapStep ==
    \E w \in Workers :
        /\ handler'[w] # handler[w]
        /\ handler'[w].view = "check_date_overlap"

\* C17: the response carries a warning exactly when a request is nearby and
\* the combined workdays exceed 14 (none at 10 or 14, one at 15); and the
\* check answers a well-formed request with this advice only, leaving every
\* stored request as it is.
C17_WarningOnly ==
    /\ [](\A w \in Workers : Checked(w) =>
            (handler[w].response.body.warning # PyNone)
                = (/\ handler[w].response.body.has_overlap
                   /\ handler[w].response.body.combined_days > 14))
    /\ [][OverlapStep => requests' = requests]_vars

\* A check with fifteen combined workdays and its warning.
C17_Witness ==
    \E w \in Workers :
        /\ Checked(w)
        /\ handler[w].response.body.has_overlap
        /\ handler[w].response.body.combined_days = 15
        /\ handler[w].response.body.warning # PyNone

\* A check with fourteen combined workdays and no warning.
C17_AtFourteen ==
    \E w \in Workers :
        /\ Checked(w)
        /\ handler[w].response.body.has_overlap
        /\ handler[w].response.body.combined_days = 14
        /\ handler[w].response.body.warning = PyNone

(***************************************************************************)
(* Properties of the remaining balance.                                    *)
(***************************************************************************)
\* The days a user has used in a year, from the table as it stands.
UsedNow(user, year) == StoredDays(CountedRequests(user, year, 0))

Remaining(allowed, used) == IF used >= allowed THEN 0 ELSE allowed - used

\* C18: the remaining balance a response reports is max(0, allowed - used) for
\* the days the user has used in the year: allowed - used while used <= allowed,
\* 0 from then on, never negative.  The balance view and the wizard take the
\* policy's allowance, the user's days-remaining view the user's own.
C18_Remaining ==
    \A w \in Workers :
        /\ Responded(w, "sirw_annual_balance") =>
              handler[w].response.body.days_remaining =
                  Remaining(DEFAULT_DAYS_ALLOWED,
                            UsedNow(handler[w].user, handler[w].response.body.year))
        /\ Responded(w, "days_remaining") =>
              handler[w].response.body.remaining =
                  Remaining(days_allowed[handler[w].user],
                            UsedNow(handler[w].user, handler[w].current_year))
        /\ Responded(w, "sirw_wizard_submit") =>
              handler[w].response.body.days_remaining =
                  Remaining(DEFAULT_DAYS_ALLOWED,
                            UsedNow(handler[w].user, handler[w].current_year))

(***************************************************************************)
(* Assessments side by side.                                               *)
(***************************************************************************)
\* The loop of assess run from its first rule to its last with nothing else
\* running: the locals after `for rule in self.rules`.
RECURSIVE ForLoop(_, _, _)
ForLoop(rules, kw, st) ==
    IF st.idx > Len(rules) THEN st
    ELSE ForLoop(rules, kw, ForLoopStep(rules, kw, st))

\* ComplianceService().assess(**c) for a context with every required argument,
\* run alone from the call to the returned dict.
ComplianceService_assess(c) ==
    LET st == ForLoop(ComplianceService_init(PyNone), c,
                      [idx |-> 1, rule_results |-> <<>>,
                       blocking_failures |-> <<>>, warnings |-> <<>>])
    IN  AssessmentResult(st.rule_results, st.blocking_failures, st.warnings, c)

\* C19: assessments that share the registered rule list and run interleaved
\* need no lock: whatever the other call does in between, a call returns what
\* it returns when run alone on its context, every call in flight iterates the
\* one registered list, and that list is never changed.
C19_NoLockNeeded ==
    \A p \in Calls :
        /\ pc[p] \in {"rules", "done"} => service[p] = COMPLIANCE_RULES
        /\ Done(p) => result[p] = ComplianceService_assess(evaluation_context[p])

\* A call has returned a rejection while another call, on a different context,
\* is in the middle of the rule list.
C19_Witness ==
    \E p, q \in Calls :
        /\ p # q
        /\ Done(p) /\ result[p].outcome = "rejected"
        /\ pc[q] = "rules" /\ idx[q] \in 2..Len(service[q])
        /\ evaluation_context[q] # evaluation_context[p]
        /\ ComplianceService_assess(evaluation_context[q]).outcome # "rejected"

(***************************************************************************)
(* The Role Eligibility rule.                                              *)
(***************************************************************************)
\* The six role categories the policy excludes.
SixIneligible ==
    {"frontline_customer_facing", "onsite_required", "legal_restrictions",
     "commercial_sales", "procurement", "senior_executive"}

\* The verdicts of the Role Eligibility rule in what call p returned.
RoleVerdicts(p) ==
    {result[p].rules[i] : i \in {j \in DOMAIN result[p].rules :
                                    result[p].rules[j].name = "Role Eligibility Check"}}

\* The role-category set of the context is a list naming one of the six.
NamesIneligible(cats) ==
    /\ cats # PyNone
    /\ cats.t = "list"
    /\ \E i \in DOMAIN cats.l : cats.l[i] \in SixIneligible

\* C20: the Role Eligibility rule fails with severity block whenever the legacy
\* flag is true, whatever the categories, and whenever the category list names
\* one of the six ineligible categories, whatever the flag; for a flag of
\* false and categories that are None or a list, it passes exactly when none
\* of the six is named.
C20_RoleEligibility ==
    \A p \in Calls : Done(p) =>
        LET kw == evaluation_context[p]
            flag == kw.is_sales_role = PyBool(TRUE)
            cats == kw.ineligible_role_categories
        IN  /\ Cardinality(RoleVerdicts(p)) = 1
            /\ \A v \in RoleVerdicts(p) :
                /\ flag \/ NamesIneligible(cats) => FailedWith(v, "block")
                /\ cats = PyNone \/ cats.t = "list"
                      => (v.passed <=> ~flag /\ ~NamesIneligible(cats))

\* The flag is false and the list names two of the six beside an unknown
\* category: the rule has failed with severity block.
C20_Witness ==
    \E p \in Calls :
        /\ Done(p)
        /\ evaluation_context[p].is_sales_role = PyBool(FALSE)
        /\ evaluation_context[p].ineligible_role_categories =
              PyList(<<"senior_executive", "unknown_category", "frontline_customer_facing">>)
        /\ \E v \in RoleVerdicts(p) : FailedWith(v, "block")

\* The flag is true beside a list of unknown categories only: failed.
C20_FlagAlone ==
    \E p \in Calls :
        /\ Done(p)
        /\ evaluation_context[p].is_sales_role = PyBool(TRUE)
        /\ evaluation_context[p].ineligible_role_categories = PyList(<<"unknown_category">>)
        /\ \E v \in RoleVerdicts(p) : FailedWith(v, "block")

\* The flag is false and the list is empty, or holds unknown categories only:
\* passed.
C20_NoneOfTheSix ==
    \E p \in Calls :
        /\ Done(p)
        /\ evaluation_context[p].is_sales_role = PyBool(FALSE)
        /\ evaluation_context[p].ineligible_role_categories
              \in {PyList(<<>>), PyList(<<"unknown_category">>)}
        /\ \E v \in RoleVerdicts(p) : v.passed

(***************************************************************************)
(* The reason of a failed Role Eligibility verdict.                        *)
(***************************************************************************)
\* The labels of the six categories, in the order the policy lists them.
SixInOrder ==
    << [cat |-> "frontline_customer_facing", label |-> "frontline or customer-facing role"],
       [cat |-> "onsite_required", label |-> "role that must be performed on-site"],
       [cat |-> "legal_restrictions",
        label |-> "role with legal restrictions preventing remote work abroad"],
       [cat |-> "commercial_sales",
        label |-> "commercial/sales role with contract signing authority"],
       [cat |-> "procurement", label |-> "procurement role with contract signing authority"],
       [cat |-> "senior_executive", label |-> "senior executive leadership role"] >>

\* The labels of the categories of the six that the list names, in the fixed
\* order, each once.
LabelsInFixedOrder(cats) ==
    LET matched == SelectSeq(SixInOrder,
                        LAMBDA e : \E i \in DOMAIN cats : cats[i] = e.cat)
    IN  [i \in DOMAIN matched |-> matched[i].label]

\* C21: when the flag is false and the category list names some of the six,
\* the reason of the failed Role Eligibility verdict lists the labels of the
\* matched categories, comma-joined, in the fixed category order whatever the
\* order of the list.
C21_FixedOrder ==
    \A p \in Calls : Done(p) =>
        LET kw == evaluation_context[p]
            cats == kw.ineligible_role_categories
        IN  kw.is_sales_role = PyBool(FALSE) /\ NamesIneligible(cats)
              => \A v \in RoleVerdicts(p) :
                    v.reason = "Employee is in an ineligible role category: "
                               \o Join(", ", LabelsInFixedOrder(cats.l)) \o ". "
                               \o "SIRW is not available for this role type (Policy Section 4.1.1)."

\* The label of one of the six categories.
LabelOf(cat) == (CHOOSE e \in Elems(SixInOrder) : e.cat = cat).label

\* What the reason lists instead: the labels in the order of the list, a
\* category named twice listed twice.
C21_InputOrder ==
    \A p \in Calls : Done(p) =>
        LET kw == evaluation_context[p]
            cats == kw.ineligible_role_categories
        IN  kw.is_sales_role = PyBool(FALSE) /\ NamesIneligible(cats)
              => LET named == SelectSeq(cats.l, LAMBDA c : c \in SixIneligible)
                 IN  \A v \in RoleVerdicts(p) :
                        v.reason = "Employee is in an ineligible role category: "
                                   \o Join(", ", [k \in DOMAIN named |-> LabelOf(named[k])]) \o ". "
                                   \o "SIRW is not available for this role type (Policy Section 4.1.1)."

(***************************************************************************)
(* The two numeric limits.                                                 *)
(***************************************************************************)
\* The verdicts of the rule of that name in what call p returned.
VerdictsNamed(p, name) ==
    {result[p].rules[i] : i \in {j \in DOMAIN result[p].rules :
                                    result[p].rules[j].name = name}}

\* The verdict passes up to the maximum and fails with severity block above it.
FailsAbove(v, days, maximum) ==
    /\ v.passed <=> days <= maximum
    /\ ~v.passed => v.severity = "block"

\* C22: for a whole number of days, Duration Limit passes up to 20 and fails
\* with severity block from 21 on, and Consecutive Days Limit passes up to 14
\* and fails with severity block from 15 on.
C22_LimitBoundaries ==
    \A p \in Calls : Done(p) /\ evaluation_context[p].duration_days.t = "int" =>
        LET days == evaluation_context[p].duration_days.i IN
        /\ Cardinality(VerdictsNamed(p, "Duration Limit")) = 1
        /\ Cardinality(VerdictsNamed(p, "Consecutive Days Limit")) = 1
        /\ \A v \in VerdictsNamed(p, "Duration Limit") : FailsAbove(v, days, 20)
        /\ \A v \in VerdictsNamed(p, "Consecutive Days Limit") : FailsAbove(v, days, 14)

\* Twenty days: Duration Limit has passed, Consecutive Days Limit has failed.
C22_Witness ==
    \E p \in Calls :
        /\ Done(p)
        /\ evaluation_context[p].duration_days = PyInt(20)
        /\ \E v \in VerdictsNamed(p, "Duration Limit") : v.passed
        /\ \E v \in VerdictsNamed(p, "Consecutive Days Limit") : FailedWith(v, "block")

\* Twenty-one days: both have failed.
C22_TwentyOne ==
    \E p \in Calls :
        /\ Done(p)
        /\ evaluation_context[p].duration_days = PyInt(21)
        /\ \E v \in VerdictsNamed(p, "Duration Limit") : FailedWith(v, "block")

\* Fourteen days and fifteen days around the consecutive limit.
C22_Fourteen ==
    \E p \in Calls :
        /\ Done(p)
        /\ evaluation_context[p].duration_days = PyInt(14)
        /\ \E v \in VerdictsNamed(p, "Consecutive Days Limit") : v.passed

C22_Fifteen ==
    \E p \in Calls :
        /\ Done(p)
        /\ evaluation_context[p].duration_days = PyInt(15)
        /\ \E v \in VerdictsNamed(p, "Consecutive Days Limit") : FailedWith(v, "block")
        /\ \E v \in VerdictsNamed(p, "Duration Limit") : v.passed

(***************************************************************************)
(* Severities in a rule trace.                                             *)
(***************************************************************************)
\* A passing verdict is informational, a failing one blocks or warns.
SeverityFits(v) ==
    IF v.passed THEN v.severity = "info" ELSE v.severity \in {"block", "warn"}

\* C23: in every rule trace, while it is built and in the returned dict, a
\* verdict that passed has severity info and one that failed has severity
\* block or warn; no verdict of severity info is among the blocking failures
\* or the warnings the outcome is determined from.
C23_SeverityOfVerdicts ==
    \A p \in Calls :
        /\ \A i \in DOMAIN rule_results[p] : SeverityFits(rule_results[p][i])
        /\ Done(p) => \A i \in DOMAIN result[p].rules : SeverityFits(result[p].rules[i])
        /\ \A i \in DOMAIN blocking_failures[p] :
                FailedWith(blocking_failures[p][i], "block")
        /\ \A i \in DOMAIN warnings[p] : FailedWith(warnings[p][i], "warn")

\* A returned trace holds a verdict that passed, one that blocks and one that
\* warns.
C23_Witness ==
    \E p \in Calls :
        /\ Done(p)
        /\ \E i, j, k \in DOMAIN result[p].rules :
            /\ result[p].rules[i].passed /\ result[p].rules[i].severity = "info"
            /\ FailedWith(result[p].rules[j], "block")
            /\ FailedWith(result[p].rules[k], "warn")
        /\ blocking_failures[p] # <<>>
        /\ warnings[p] # <<>>

(***************************************************************************)
(* The Same Country Check.                                                 *)
(***************************************************************************)
\* Other home countries a caller may pass: another country, the destination
\* in another case, a sanctioned country, the empty string.
OtherHomes == {"France", "DENMARK", " russia ", "Monaco", ""}

\* C24: when home and destination are strings the Same Country Check has
\* passed with severity info, and whatever string the home country is replaced
\* by, assess gives the context the same outcome.
C24_SameCountryNeverFails ==
    \A p \in Calls : Done(p) /\ evaluation_context[p].home_country.t = "str" =>
        LET kw == evaluation_context[p] IN
        /\ kw.destination_country.t = "str" =>
              /\ Cardinality(VerdictsNamed(p, "Same Country Check")) = 1
              /\ \A v \in VerdictsNamed(p, "Same Country Check") :
                    v.passed /\ v.severity = "info"
        /\ \A h \in OtherHomes :
              ComplianceService_assess([kw EXCEPT !.home_country = PyStr(h)]).outcome
                = result[p].outcome

\* Home and destination are the same country in different case, everything
\* else is in order: the check has passed and the request is approved.
C24_Witness ==
    \E p \in Calls :
        /\ Done(p)
        /\ evaluation_context[p].home_country = PyStr("Denmark")
        /\ evaluation_context[p].destination_country = PyStr("denmark")
        /\ \E v \in VerdictsNamed(p, "Same Country Check") :
              /\ v.passed
              /\ v.reason = "Working from home country (Denmark). "
                            \o "This may not require cross-border compliance review."
        /\ result[p].outcome = "approved"

(***************************************************************************)
(* Cancelling a request.                                                   *)
(***************************************************************************)
\* A worker has just answered a DELETE on a request.
DestroyStep(w) ==
    /\ handler'[w].view = "destroy"
    /\ handler'[w].pc = "responded"
    /\ handler'[w] # handler[w] \/ requests' # requests

\* The rows with row pk left out.
Without(rows, pk) == SelectSeq(rows, LAMBDA r : r.id # pk)

\* The request counts for nothing in the rows: the days used of every year and
\* the nearby requests of a window over every stored range are what they are
\* without it.
CountsForNothing(rows, user, pk) ==
    /\ \A y \in Years :
          /\ User_days_used(rows, user, y) = User_days_used(Without(rows, pk), user, y)
          /\ wizard_days_used(rows, user, y) = wizard_days_used(Without(rows, pk), user, y)
    /\ nearby_requests(rows, user, ymd(2023, 1, 1), ymd(2025, 12, 31))
          = nearby_requests(Without(rows, pk), user, ymd(2023, 1, 1), ymd(2025, 12, 31))

\* C25: a destroy of an approved or completed request is answered with an
\* error and changes nothing; a destroy of a request of the user in any other
\* status keeps every row and changes only that request's status, to
\* cancelled, after which it counts neither towards the days used nor as a
\* nearby request; and no overlap check reports a cancelled request.
C25_Cancel ==
    /\ [][\A w \in Workers : DestroyStep(w) =>
            LET pk == handler'[w].pk
                user == handler'[w].user
            IN  IF ~Found(pk, user)
                THEN requests' = requests
                ELSE IF requests[pk].status \in {"approved", "completed"}
                THEN /\ handler'[w].response.status = 400
                     /\ requests' = requests
                ELSE /\ handler'[w].response.status = 204
                     /\ requests' = [requests EXCEPT ![pk].status = "cancelled"]
                     /\ CountsForNothing(requests', user, pk)]_vars
    /\ [](\A w \in Workers : Checked(w) =>
            \A i \in Reported(w) : requests[i].status # "cancelled")

\* One of two requests of a user has been cancelled; the other one, still
\* approved, lies within seven days of it.
C25_Witness ==
    \E w \in Workers :
        /\ handler[w].view = "destroy"
        /\ handler[w].pc = "responded"
        /\ handler[w].response.status = 204
        /\ requests[handler[w].pk].status = "cancelled"
        /\ \E i \in DOMAIN requests :
              /\ i # handler[w].pk
              /\ requests[i].user = handler[w].user
              /\ requests[i].status = "approved"
              /\ requests[i].start_date.ord <= requests[handler[w].pk].end_date.ord + 7
              /\ requests[i].end_date.ord >= requests[handler[w].pk].start_date.ord - 7

\* The destroy of an approved request has been refused.
C25_Refused ==
    \E w \in Workers :
        /\ handler[w].view = "destroy"
        /\ handler[w].pc = "responded"
        /\ handler[w].response.status = 400
        /\ requests[handler[w].pk].status = "approved"

(***************************************************************************)
(* Submissions through the wizard only, one at a time, while the years pass. *)
(***************************************************************************)
\* Eleven workdays each, in February and in March of the next year.
NextFebruary == Trip(ymd(2025, 2, 3), ymd(2025, 2, 17))
NextMarch == Trip(ymd(2025, 3, 3), ymd(2025, 3, 17))

WizardSubmissions(user) ==
    IF user = "ana"
    THEN { TwoWeeks, ElevenDays, NextFebruary, NextMarch, ThreeWeeks, LongStay }
            \cup InvalidSubmissions
    ELSE { TwoWeeks }

NextWizard ==
    \/ \E u \in Users : \E data \in WizardSubmissions(u) : WizardValidate(1, u, data)
    \/ WizardCreate(1)
    \/ WizardInsert(1)
    \/ WizardDecide(1)
    \/ NewYear

SpecWizard == Init /\ [][NextWizard]_vars

\* The approved requests of a user that start in a year.
ApprovedIn(user, year) ==
    {i \in DOMAIN requests :
        /\ requests[i].user = user
        /\ requests[i].status = "approved"
        /\ days_before_year(year) < requests[i].start_date.ord
        /\ requests[i].start_date.ord <= days_before_year(year + 1)}

\* C26: with nothing but wizard submissions, one at a time, the approved
\* requests of a user that start in a year never add up to more than the
\* annual allowance of 20 workdays.
C26_WithinAllowance ==
    \A u \in Users : \A y \in Years : StoredDays(ApprovedIn(u, y)) <= 20

\* The same bound for the requests submitted in the year they start in.
C26_SubmittedInTheirYear ==
    \A u \in Users : \A y \in Years :
        StoredDays({i \in ApprovedIn(u, y) : requests[i].created_year = y}) <= 20

\* The submission worker w is deciding on: its row is stored, not yet decided.
Deciding(w, i) ==
    /\ handler[w].view = "sirw_wizard_submit"
    /\ handler[w].pc = "decide"
    /\ handler[w].pk = i

\* The submission of worker w has been refused at validation.
Refused(w) ==
    /\ handler[w].view = "sirw_wizard_submit"
    /\ handler[w].pc = "responded"
    /\ handler[w].response.status = 400

\* C28: a request the wizard has stored is approved or escalated, never
\* rejected (it is pending only between its INSERT and the decision of the
\* same submission); every stored request has an eligible destination, the
\* right to work and the confirmed role eligibility, so none of the three
\* auto-reject branches is taken; a submission without one of them is refused
\* with an error and stores nothing.
C28_NeverRejected ==
    /\ [](\A i \in DOMAIN requests :
            /\ requests[i].status \in {"approved", "escalated", "pending"}
            /\ requests[i].status = "pending" => \E w \in Workers : Deciding(w, i)
            /\ ~is_country_blocked(requests[i].destination_country)
            /\ requests[i].has_right_to_work
            /\ requests[i].confirmed_role_eligible
            /\ requests[i].decision_status # "auto_rejected")
    /\ [](\A w \in Workers :
            Responded(w, "sirw_wizard_submit") =>
                /\ handler[w].response.body.status \in {"approved", "escalated"}
                /\ handler[w].response.body.outcome \in {"approved", "pending"})
    /\ [][\A w \in Workers :
            Refused(w)' /\ handler'[w] # handler[w] =>
                /\ requests' = requests
                /\ \/ is_country_blocked(handler'[w].data.destination_country)
                   \/ ~handler'[w].data.has_right_to_work
                   \/ ~handler'[w].data.confirmed_role_eligible
                   \/ handler'[w].response.errors
                        \in {"end_date", "is_exception_request", "exception_reason"}]_vars

\* A submission without the right to work has been refused; the one request
\* stored before it, escalated by the wizard, is all there is.
C28_Witness ==
    \E w \in Workers :
        /\ Refused(w)
        /\ ~handler[w].data.has_right_to_work
        /\ handler[w].response.errors = "has_right_to_work"
        /\ Len(requests) = 1
        /\ requests[1].status = "escalated"

\* Submissions to a blocked destination and without the confirmation have
\* been refused too.
C28_BlockedRefused ==
    \E w \in Workers :
        /\ Refused(w)
        /\ handler[w].response.errors = "destination_country"

C28_UnconfirmedRefused ==
    \E w \in Workers :
        /\ Refused(w)
        /\ handler[w].response.errors = "confirmed_role_eligible"

(***************************************************************************)
(* Two workers serving wizard submissions of one user at the same time.    *)
(***************************************************************************)
RaceSubmissions == { TwoWeeks, ElevenDays, ThreeWeeks }

NextRace ==
    \E w \in Workers :
        \/ \E data \in RaceSubmissions : WizardValidate(w, "ana", data)
        \/ WizardCreate(w)
        \/ WizardInsert(w)
        \/ WizardDecide(w)

SpecRace == Init /\ [][NextRace]_vars

\* Worker w has answered a submission with the request it stored.
Answered(w) == Responded(w, "sirw_wizard_submit")

\* Workers w and v have answered two submissions of one user, and each read
\* the days used before the other's request was stored: both read the days of
\* the requests that count without the two.
Interleaved(w, v) ==
    /\ w # v
    /\ Answered(w) /\ Answered(v)
    /\ handler[w].user = handler[v].user
    /\ handler[w].pk # handler[v].pk
    /\ LET others == CountedRequests(handler[w].user, current_year, 0)
                        \ {handler[w].pk, handler[v].pk}
       IN  /\ handler[w].response.body.days_used_this_year = StoredDays(others)
           /\ handler[v].response.body.days_used_this_year = StoredDays(others)

\* C27: when two submissions of a user interleave and the days used plus the
\* workdays of both exceed the allowance of 20, they are not both approved:
\* one of them at least is escalated with exceeds_annual_limit.
C27_NotBothApproved ==
    \A w, v \in Workers :
        /\ Interleaved(w, v)
        /\ handler[w].response.body.days_used_this_year
             + requests[handler[w].pk].duration_days
             + requests[handler[v].pk].duration_days > 20
        => \E x \in {w, v} :
              /\ handler[x].response.body.status = "escalated"
              /\ \E k \in DOMAIN requests[handler[x].pk].flags :
                    requests[handler[x].pk].flags[k] = "exceeds_annual_limit"

\* The same for two submissions served one after the other: the second one
\* reads the days of the first.
C27_OneAfterTheOther ==
    \A w, v \in Workers :
        /\ w # v
        /\ Answered(w) /\ Answered(v)
        /\ handler[w].pk < handler[v].pk
        /\ handler[v].response.body.days_used_this_year
             = handler[w].response.body.days_used_this_year
                 + (IF requests[handler[w].pk].status = "approved"
                    THEN requests[handler[w].pk].duration_days ELSE 0)
        /\ handler[w].response.body.days_used_this_year
             + requests[handler[w].pk].duration_days
             + requests[handler[v].pk].duration_days > 20
        => \E x \in {w, v} : handler[x].response.body.status = "escalated"

(***************************************************************************)
(* Who approves.                                                           *)
(***************************************************************************)
\* C29: with the employee's own operations on top of the wizard, a request is
\* approved only when the automated decision approved it or an admin decided
\* it: a request the automated decision escalated or rejected is never
\* approved by its owner.
C29_NoSelfApproval ==
    \A i \in DOMAIN requests :
        requests[i].status = "approved" =>
            \/ requests[i].decision_status = "auto_approved"
            \/ requests[i].decision_source = "human"

\* The employee's PATCH is where it happens: every other step leaves a request
\* that is not approved unapproved unless the wizard has just decided it.
C29_OnlyByPatch ==
    [][\A i \in DOMAIN requests :
          /\ requests[i].status # "approved"
          /\ requests'[i].status = "approved"
          => \E w \in Workers :
                \/ handler'[w].view = "partial_update" /\ handler'[w].pk = i
                \/ /\ handler'[w].view = "sirw_wizard_submit"
                   /\ handler[w].pc = "decide"
                   /\ handler[w].pk = i
                   /\ requests'[i].decision_status = "auto_approved"]_vars

(***************************************************************************)
(* admin/views.py: AdminRequestViewSet, DELETE (DestroyModelMixin).        *)
(***************************************************************************)
AdminDelete(w, pk) ==
    /\ AtRest(w)
    /\ IF pk \in DOMAIN requests /\ requests[pk].status # "deleted"
       THEN /\ requests' = [requests EXCEPT ![pk] = Deleted(pk)]
            /\ handler' = [handler EXCEPT ![w] =
                  [view |-> "admin_destroy", pc |-> "responded", pk |-> pk,
                   response |-> [status |-> 204]]]
       ELSE /\ handler' = [handler EXCEPT ![w] =
                  [view |-> "admin_destroy", pc |-> "responded", pk |-> pk,
                   response |-> [status |-> 404]]]
            /\ UNCHANGED requests
    /\ UNCHANGED << current_year, days_allowed >>
    /\ UNCHANGED outsidePortal

(***************************************************************************)
(* Creations by two workers, and an admin who deletes.                     *)
(***************************************************************************)
NextReference ==
    \E w \in Workers :
        \/ \E u \in Users : WizardValidate(w, u, TwoWeeks)
        \/ WizardCreate(w)
        \/ WizardInsert(w)
        \/ WizardDecide(w)
        \/ \E pk \in 1..MaxIds : AdminDelete(w, pk)

SpecReference == Init /\ [][NextReference]_vars

\* No two stored requests hold the same reference number.
DistinctReferenceNumbers ==
    \A i, j \in DOMAIN requests :
        /\ i # j
        /\ requests[i].status # "deleted"
        /\ requests[j].status # "deleted"
        => requests[i].reference_number # requests[j].reference_number

\* A creation has failed on its reference number.
CreationFailed(w) ==
    /\ handler[w].view = "sirw_wizard_submit"
    /\ handler[w].pc = "responded"
    /\ handler[w].response.status = 500

\* C30: after creations, interleaved or not, and admin deletions, the stored
\* requests hold pairwise distinct reference numbers, and no creation has
\* failed to get one: the number generated from the count is never the number
\* of a request that exists.
C30_ReferenceNumbers ==
    /\ DistinctReferenceNumbers
    /\ \A w \in Workers : ~CreationFailed(w)
    /\ \A w \in Workers :
          handler[w].view = "sirw_wizard_submit" /\ handler[w].pc = "insert"
            => ~UniqueViolation(handler[w].instance, requests)

\* What holds: the numbers stored are distinct, and every stored request has
\* one.
C30_Distinct ==
    /\ DistinctReferenceNumbers
    /\ \A i \in DOMAIN requests :
          requests[i].status # "deleted" => requests[i].reference_number # ""

====
